---- MODULE Spec2Model ----
(***************************************************************************)
(* Model of the ForgeDAO front end.                                        *)
(*                                                                         *)
(* Part 1: parsePatch (component/collaboration/proposalDetails.tsx), the   *)
(* helper that turns the `patch` text of a changed file into at most ten   *)
(* {type, line, content} records.  A string is a sequence of one-character *)
(* strings; the scan over the lines is one action per branch of the loop.  *)
(*                                                                         *)
(* Part 2: ProposalOwner (component/collaboration/proposalOwner.tsx), the  *)
(* page of a proposal's owner: its React state, the requests it has in     *)
(* flight, and the aggregation of the activity records into collaborators. *)
(* A handler runs from the state of the render it was created in; every    *)
(* response of the server is a step of its own.                            *)
(*                                                                         *)
(* Part 3: the other pages (App.tsx, pages/profile.tsx and the proposal    *)
(* list): each page is one variable, a record of its props, its React      *)
(* state and its requests in flight.                                       *)
(***************************************************************************)
EXTENDS Integers, Sequences, FiniteSets, TLC

\* parsePatch: its argument, its locals, what it returned, where it is, and
\* the calls made so far with what each returned
VARIABLES patch, lines, idx, currentLine, changes, result, pc, log

\* ProposalOwner: the currentUser prop and the component's state
VARIABLES currentUser, proposal, activity, openPRs, loading
VARIABLES error, success, refreshing, collaborators

\* ProposalOwner: the activity the server holds, the requests in flight, the
\* argument of a direct call of processCollaboratorsFromActivity, where the
\* component is, and the clicks on Refresh so far
VARIABLES serverActivity, tasks, activityData, pcOwner, refreshes

\* ProposalOwner: the endpoints queried since the effect ran, the activity
\* the running refresh received, whether a request of the effect failed, and
\* whether Refresh was clicked with nothing in flight
VARIABLES requested, fetched, failed, alone

\* EventDetail (App.tsx): its currentUser.id prop, its state, its requests in
\* flight, and what its handlers have done so far
VARIABLES eventDetail

\* Profile (pages/profile.tsx): what the server holds for the user, and the
\* state and requests of two visits of the page, one after the other
VARIABLES profilePage

\* App (App.tsx): authState, the request of checkAuthStatus, the location of
\* the router with the locations passed since the user last chose one, and
\* the kind of the last step
VARIABLES app

\* ProposalList: its state, its requests in flight (each with the number of
\* the click that sent it), the branches the server created and the
\* pull-request requests sent
VARIABLES proposalList

\* ProposalOwner under a change of its proposalId prop and under merges: its
\* state, its requests in flight, each with the proposalId of the render
\* that sent it, the pull requests the server has merged, how each call of
\* handleMergePR was answered and which calls have ended
VARIABLES ownerPage

patchVars == <<patch, lines, idx, currentLine, changes, result, pc, log>>

ownerVars ==
    <<currentUser, proposal, activity, openPRs, loading, error, success,
      refreshing, collaborators, serverActivity, tasks, activityData, pcOwner,
      refreshes, requested, fetched, failed, alone>>

pagesVars == <<eventDetail, profilePage, app, proposalList, ownerPage>>

vars == <<patchVars, ownerVars, pagesVars>>

\* what a step of parsePatch leaves alone
beyondPatch == <<ownerVars, pagesVars>>

\* what a step of ProposalOwner leaves alone
beyondOwner == <<patchVars, pagesVars>>

\* what a step of EventDetail leaves alone
beyondEvent ==
    <<patchVars, ownerVars, profilePage, app, proposalList, ownerPage>>

\* what a step of Profile leaves alone
beyondProfile ==
    <<patchVars, ownerVars, eventDetail, app, proposalList, ownerPage>>

\* what a step of App leaves alone
beyondApp ==
    <<patchVars, ownerVars, eventDetail, profilePage, proposalList, ownerPage>>

\* what a step of ProposalOwner leaves alone when its prop changes or a pull
\* request is merged
beyondOwnerPage == <<patchVars, ownerVars, eventDetail, profilePage, app, proposalList>>

\* what a step of ProposalList leaves alone
beyondList ==
    <<patchVars, ownerVars, eventDetail, profilePage, app, ownerPage>>

----------------------------------------------------------------------------
(* Bounds of the explored inputs.                                          *)

\* longest patch, in lines, built freely from PatchLines
MaxLines == 3
\* longest patch, in lines, of the calls followed to their end (FairSpec)
MaxFairLines == 2
\* lines put in front of a run of addition/deletion lines (SpecCap)
MaxPrefix == 1
\* calls of parsePatch in a row (SpecCalls)
MaxCalls == 3
\* branch and pull-request records in the activity given to
\* processCollaboratorsFromActivity (SpecProcess)
MaxRecords == 2
\* clicks on Refresh (SpecOwner)
MaxRefreshes == 1
\* clicks on the participate button of EventDetail (SpecEvent)
MaxJoins == 2
\* activities the server lists, and contributions it counts (SpecProfile)
MaxActivities == 1
\* locations the router passes after the user chose one (SpecApp)
MaxHops == 3
\* clicks on the Branch and PR buttons of ProposalList (SpecList)
MaxClicks == 3
\* changes of the proposalId prop of ProposalOwner (SpecSwitch)
MaxSwitches == 1
\* clicks on the merge buttons of ProposalOwner (SpecMerge)
MaxMerges == 3
\* longest run of addition/deletion lines (SpecCap); more than MaxChanges
MaxRun == 14

----------------------------------------------------------------------------
(* Strings.                                                                *)

Digits == {"0", "1", "2", "3", "4", "5", "6", "7", "8", "9"}

DigitVal(c) ==
    CASE c = "0" -> 0 [] c = "1" -> 1 [] c = "2" -> 2 [] c = "3" -> 3
      [] c = "4" -> 4 [] c = "5" -> 5 [] c = "6" -> 6 [] c = "7" -> 7
      [] c = "8" -> 8 [] c = "9" -> 9

\* the literal `lit` occurs in s at position i
HasAt(s, i, lit) ==
    /\ i + Len(lit) - 1 <= Len(s)
    /\ \A k \in 1..Len(lit) : s[i + k - 1] = lit[k]

\* String.prototype.includes in the place of startsWith
Includes(s, p) == \E i \in 1..(Len(s) + 1) : HasAt(s, i, p)

\* String.prototype.startsWith
StartsWith(s, p) ==
    /\ Len(p) <= Len(s)
    /\ \A k \in 1..Len(p) : s[k] = p[k]

\* the positions of the "\n" characters of s
Newlines(s) == { i \in 1..Len(s) : s[i] = "\n" }

\* where the k-th piece of s starts and where it ends: after the (k-1)-th
\* "\n" (or at the start of s) and before the k-th (or at the end of s)
PieceStart(s, k) ==
    IF k = 1 THEN 1
    ELSE 1 + CHOOSE i \in Newlines(s) : Cardinality({ j \in Newlines(s) : j < i }) = k - 2

PieceEnd(s, k) ==
    IF k = Cardinality(Newlines(s)) + 1 THEN Len(s)
    ELSE (CHOOSE i \in Newlines(s) : Cardinality({ j \in Newlines(s) : j < i }) = k - 1) - 1

\* String.prototype.split('\n'): one more piece than there are "\n" in s,
\* so always at least one (possibly empty) piece
Split(s) ==
    [ k \in 1..(Cardinality(Newlines(s)) + 1) |-> SubSeq(s, PieceStart(s, k), PieceEnd(s, k)) ]

\* parseInt on a non-empty run of decimal digits
RECURSIVE ParseInt(_)
ParseInt(ds) ==
    IF Len(ds) = 0 THEN 0
    ELSE 10 * ParseInt(SubSeq(ds, 1, Len(ds) - 1)) + DigitVal(ds[Len(ds)])

----------------------------------------------------------------------------
(* The hunk-header pattern /@@ -(\d+),?\d* \+(\d+),?\d* @@/.               *)
(* Every digit run of the pattern is followed by an optional comma, more   *)
(* digits and then a space, so a match exists exactly when the greedy      *)
(* choice (the maximal digit run) matches; no backtracking is needed.      *)

\* end (exclusive) of the maximal digit run of s that starts at i
DigitRunEnd(s, i) ==
    LET stops == { j \in i..Len(s) : s[j] \notin Digits }
    IN  IF stops = {} THEN (IF i > Len(s) THEN i ELSE Len(s) + 1)
        ELSE CHOOSE j \in stops : \A k \in stops : j <= k

\* "," in the place of ",?": without a comma nothing matches from here on
CommaRequired(s, i) == IF i <= Len(s) /\ s[i] = "," THEN i + 1 ELSE Len(s) + 2

\* ",?"
SkipComma(s, i) == IF i <= Len(s) /\ s[i] = "," THEN i + 1 ELSE i

\* body(v), with v evaluated once
With(v, body(_)) == CHOOSE r \in { body(x) : x \in {v} } : TRUE

\* the second capture group when the pattern matches at position i, else <<>>:
\* '@@ -', digits up to b, ',?' and digits up to d, ' +', digits up to f (the
\* group), ',?' and digits up to h, ' @@'
MatchAt(s, i) ==
    IF ~HasAt(s, i, <<"@", "@", " ", "-">>) THEN << >>
    ELSE With(DigitRunEnd(s, i + 4), LAMBDA b :
      IF b = i + 4 THEN << >>
      ELSE With(DigitRunEnd(s, SkipComma(s, b)), LAMBDA d :
        IF ~HasAt(s, d, <<" ", "+">>) THEN << >>
        ELSE With(DigitRunEnd(s, d + 2), LAMBDA f :
          IF f = d + 2 THEN << >>
          ELSE With(DigitRunEnd(s, SkipComma(s, f)), LAMBDA h :
            IF HasAt(s, h, <<" ", "@", "@">>) THEN SubSeq(s, d + 2, f - 1)
            ELSE << >>))))

\* line.match(...): the pattern is not anchored, the leftmost match wins;
\* <<>> stands for null (a capture group of \d+ is never empty)
HunkMatch(s) ==
    With({ i \in 1..Len(s) : MatchAt(s, i) # << >> }, LAMBDA starts :
        IF starts = {} THEN << >>
        ELSE MatchAt(s, CHOOSE i \in starts : \A j \in starts : i <= j))

----------------------------------------------------------------------------
(* The branches of the loop body.                                          *)

\* the test folded into the match: if (line.match(...))
IsHunkLineMatching(line) == StartsWith(line, <<"@", "@">>) /\ HunkMatch(line) # << >>

\* if (line.startsWith('@@'))
IsHunkLine(line) == StartsWith(line, <<"@", "@">>)

\* the test without its second half: else if (line.startsWith('+'))
IsAdditionAnyPlus(line) ==
    /\ ~IsHunkLine(line)
    /\ StartsWith(line, <<"+">>)

\* else if (line.startsWith('+') && !line.startsWith('+++'))
IsAddition(line) ==
    /\ ~IsHunkLine(line)
    /\ StartsWith(line, <<"+">>)
    /\ ~StartsWith(line, <<"+", "+", "+">>)

\* else if (line.startsWith('-') && !line.startsWith('---'))
IsDeletion(line) ==
    /\ ~IsHunkLine(line)
    /\ ~IsAddition(line)
    /\ StartsWith(line, <<"-">>)
    /\ ~StartsWith(line, <<"-", "-", "-">>)

\* the last test left out: else { currentLine++; }
IsCountedAlways(line) ==
    /\ ~IsHunkLine(line)
    /\ ~IsAddition(line)
    /\ ~IsDeletion(line)

\* else if (!line.startsWith('\\'))
IsCounted(line) ==
    /\ ~IsHunkLine(line)
    /\ ~IsAddition(line)
    /\ ~IsDeletion(line)
    /\ ~StartsWith(line, <<"\\">>)

\* the remaining lines: the loop body does nothing
IsSkipped(line) ==
    /\ ~IsHunkLine(line)
    /\ ~IsAddition(line)
    /\ ~IsDeletion(line)
    /\ ~IsCounted(line)

\* the guard left out: match[2] is read whatever match is
NoMatchGuard(m) == TRUE

\* if (match): null is falsy, a match array is truthy
MatchGuard(m) == m # << >>

\* the record with the marker cut off: content: line.slice(1)
ChangeWithoutMarker(t, n, line) == [type |-> t, line |-> n, content |-> Tail(line)]

\* {type: ..., line: currentLine, content: line}
Change(t, n, line) == [type |-> t, line |-> n, content |-> line]

\* the cap of changes.slice(0, 10)
MaxChanges == 10

\* changes with no cap at all
SliceAll(s) == s

\* changes.slice(-10): the last ten instead of the first ten
SliceLast10(s) == SubSeq(s, IF Len(s) < MaxChanges THEN 1 ELSE Len(s) - MaxChanges + 1, Len(s))

\* changes.slice(1, 10): the first record dropped
SliceFromSecond(s) == SubSeq(s, 2, IF Len(s) < MaxChanges THEN Len(s) ELSE MaxChanges)

\* changes.slice(0, 10)
Slice10(s) == SubSeq(s, 1, IF Len(s) < MaxChanges THEN Len(s) ELSE MaxChanges)

----------------------------------------------------------------------------
(* The inputs: patches built from these lines.                             *)

\* '@@ -1,3 +1,3 @@'
HunkFull == <<"@", "@", " ", "-", "1", ",", "3", " ", "+", "1", ",", "3", " ", "@", "@">>

\* '@@ -5 +5 @@'
HunkBare == <<"@", "@", " ", "-", "5", " ", "+", "5", " ", "@", "@">>

\* '@@ -5,2 +7 @@'
HunkOldLen == <<"@", "@", " ", "-", "5", ",", "2", " ", "+", "7", " ", "@", "@">>

\* '@@ -5 +7,2 @@'
HunkNewLen == <<"@", "@", " ", "-", "5", " ", "+", "7", ",", "2", " ", "@", "@">>

\* '@@ -12,3 +10,4 @@ f': two-digit starts, text after the header
HunkWide == <<"@", "@", " ", "-", "1", "2", ",", "3", " ", "+", "1", "0", ",", "4", " ", "@", "@", " ", "f">>

\* '@@x@@ -2 +4 @@': the pattern matches after the start of the line
HunkLate == <<"@", "@", "x", "@", "@", " ", "-", "2", " ", "+", "4", " ", "@", "@">>

\* '@@ -a +b @@': starts with '@@', does not match the pattern
HunkBad == <<"@", "@", " ", "-", "a", " ", "+", "b", " ", "@", "@">>

\* ' context'
CtxLine == <<" ", "c", "o", "n", "t", "e", "x", "t">>

\* ' a+b-c': a context line that contains '+' and '-'
CtxSigns == <<" ", "a", "+", "b", "-", "c">>

\* '-old line'
DelLine == <<"-", "o", "l", "d", " ", "l", "i", "n", "e">>

\* '+new line'
AddLine == <<"+", "n", "e", "w", " ", "l", "i", "n", "e">>

\* '+++ b/f': the new-file marker, or an added line whose text is '++ b/f'
FileNew == <<"+", "+", "+", " ", "b", "/", "f">>

\* '--- a/f': the old-file marker, or a removed line whose text is '-- a/f'
FileOld == <<"-", "-", "-", " ", "a", "/", "f">>

\* '\ No newline'
NoNewline == <<"\\", " ", "N", "o", " ", "n", "e", "w", "l", "i", "n", "e">>

\* the empty line (after a final newline)
EmptyLine == <<>>

\* the lines the explored patches are built from
PatchLines ==
    { HunkFull, HunkBare, HunkOldLen, HunkNewLen, HunkWide, HunkLate, HunkBad,
      CtxLine, CtxSigns, DelLine, AddLine, FileNew, FileOld, NoNewline }

\* Array.prototype.join('\n'): the patch text whose lines are ls
RECURSIVE Join(_)
Join(ls) ==
    IF Len(ls) = 0 THEN << >>
    ELSE IF Len(ls) = 1 THEN ls[1]
    ELSE ls[1] \o <<"\n">> \o Join(Tail(ls))

\* the patches of the specification's examples
SpecExample == <<HunkFull, CtxLine, DelLine, AddLine, EmptyLine>>
HunkExample == <<HunkFull, CtxLine, DelLine, AddLine>>
FileHeaderExample == <<FileOld, FileNew, HunkFull, CtxLine, DelLine, AddLine>>
TwoHunkExample == <<HunkFull, CtxLine, AddLine, CtxLine, HunkOldLen, DelLine, AddLine>>

Examples == { SpecExample, HunkExample, FileHeaderExample, TwoHunkExample }

\* every patch of at most MaxLines lines
ShortPatches == UNION { [1..n -> PatchLines] : n \in 0..MaxLines }

Patches == { Join(ls) : ls \in ShortPatches \cup Examples }

\* the i-th line of a run: its text is the last digit of i
DigitChars == <<"0", "1", "2", "3", "4", "5", "6", "7", "8", "9">>

RunKinds == {"add", "del", "alt", "gap"}

RunLine(kind, i) ==
    LET c == DigitChars[(i % 10) + 1]
    IN  CASE kind = "add" -> <<"+", c>>
          [] kind = "del" -> <<"-", c>>
          [] kind = "alt" -> IF i % 2 = 1 THEN <<"+", c>> ELSE <<"-", c>>
          [] kind = "gap" -> IF i % 4 = 0 THEN <<" ", c>> ELSE <<"+", c>>

\* at most MaxPrefix lines followed by a run of at most MaxRun lines
LongPatches ==
    { pre \o [i \in 1..n |-> RunLine(kind, i)] :
        pre \in UNION { [1..m -> PatchLines] : m \in 0..MaxPrefix },
        kind \in RunKinds, n \in 0..MaxRun }

----------------------------------------------------------------------------
(* ProposalOwner as first rendered.                                        *)

\* JavaScript's null and undefined
Null == "null"
Undefined == "undefined"

\* useState<Proposal | null>(null): no proposal
NoProposal == [id |-> Null, createdBy |-> [id |-> Undefined, username |-> Undefined]]

\* currentUser?: User left out
NoUser == [id |-> Undefined, username |-> Undefined]

\* useState({ branches: [], pullRequests: [] })
EmptyActivity == [branches |-> << >>, pullRequests |-> << >>]

\* the useState initial values (lines 106-116)
InitialRender ==
    /\ proposal = NoProposal
    /\ activity = EmptyActivity
    /\ openPRs = << >>
    /\ loading = TRUE
    /\ error = Null
    /\ success = Null
    /\ refreshing = FALSE
    /\ collaborators = << >>

\* nothing requested, nothing in flight
NothingInFlight ==
    /\ tasks = {}
    /\ activityData = EmptyActivity
    /\ pcOwner = "rendered"
    /\ refreshes = 0
    /\ requested = {}
    /\ fetched = {}
    /\ failed = FALSE
    /\ alone = TRUE

\* the page rendered without a currentUser, before its effect has run
NotRendered ==
    /\ currentUser = NoUser
    /\ InitialRender
    /\ serverActivity = EmptyActivity
    /\ NothingInFlight

----------------------------------------------------------------------------
(* The other pages as first rendered.                                      *)

\* EventDetail rendered for a currentUser with the given id: the useState
\* initial values (App.tsx lines 591-599), nothing in flight, no click yet.
\* sent counts the participate requests, outcomes lists how the calls of
\* handleParticipate ended, eventFailed tells that the event request failed.
EventRendered(userId) ==
    [ userId |-> userId,
      event |-> Null,
      participation |-> Null,
      leaderboard |-> << >>,
      activities |-> << >>,
      loading |-> TRUE,
      participating |-> FALSE,
      error |-> Null,
      successMessage |-> Null,
      tasks |-> {},
      pc |-> "rendered",
      sent |-> 0,
      outcomes |-> << >>,
      eventFailed |-> FALSE ]

\* the four requests of fetchProfileData
ProfileRequests == {"profile", "proposals", "activities", "stats"}

\* Profile as first rendered: the useState initial values (profile.tsx lines
\* 51-63); answers tells for each request whether it was sent and how it
\* was answered
ProfileRendered ==
    [ profile |-> "currentUser",
      proposals |-> << >>,
      activities |-> << >>,
      stats |-> [ totalProposals |-> 0, activeProposals |-> 0, completedProposals |-> 0,
                  totalContributions |-> 0, pullRequestsToProposals |-> 0, joinDate |-> "" ],
      loading |-> TRUE,
      pc |-> "rendered",
      answers |-> [k \in ProfileRequests |-> "none"] ]

\* the two visits of Profile, for a server that lists n activities and
\* counts total contributions
ProfileVisits(n, total) ==
    [ server |-> [activities |-> [k \in 1..n |-> "activity"], totalContributions |-> total],
      visit |-> [i \in 1..2 |-> ProfileRendered] ]

\* App as first rendered at a location: the useState initial value of
\* authState (App.tsx lines 32-36), checkAuthStatus not yet called
AppRendered(path) ==
    [ authState |-> [isAuthenticated |-> FALSE, user |-> Null, loading |-> TRUE],
      pc |-> "rendered",
      location |-> path,
      trail |-> <<path>>,
      last |-> "render" ]

\* ProposalList as first rendered: the useState initial values (lines
\* 100-103), nothing requested
ListRendered ==
    [ proposals |-> {},
      loading |-> TRUE,
      branchName |-> "",
      pc |-> "rendered",
      tasks |-> {},
      clicks |-> 0,
      created |-> {},
      prSent |-> {} ]

\* ProposalOwner as first rendered for a proposalId (lines 103-116):
\* mergingPR holds the number of the pull request, and nothing for null
OwnerRendered(proposalId) ==
    [ proposalId |-> proposalId,
      proposal |-> NoProposal,
      activity |-> EmptyActivity,
      openPRs |-> << >>,
      loading |-> TRUE,
      mergingPR |-> {},
      error |-> Null,
      success |-> Null,
      collaborators |-> << >>,
      pc |-> "rendered",
      tasks |-> {},
      switches |-> 0,
      clicks |-> 0,
      allOk |-> TRUE,
      merged |-> {},
      answers |-> {},
      ended |-> {} ]

\* the pages other than ProposalOwner, not visited
PagesIdle ==
    /\ eventDetail = EventRendered(Undefined)
    /\ profilePage = ProfileVisits(0, 0)
    /\ app = AppRendered("/")
    /\ proposalList = ListRendered
    /\ ownerPage = OwnerRendered("A")

----------------------------------------------------------------------------
(* parsePatch, one step at a time.                                         *)

\* before the call: nothing parsed yet
PatchIdle ==
    /\ patch = << >>
    /\ lines = << >>
    /\ idx = 0
    /\ currentLine = 0
    /\ changes = << >>
    /\ result = << >>
    /\ pc = "idle"
    /\ log = << >>

Init == PatchIdle /\ NotRendered /\ PagesIdle

\* changes: file.patch ? parsePatch(file.patch) : [] -- the call, on some patch
Call ==
    /\ pc = "idle"
    /\ patch' \in Patches
    /\ pc' = "call"
    /\ UNCHANGED <<lines, idx, currentLine, changes, result, log>>
    /\ UNCHANGED beyondPatch

\* the same call, on a patch of at most MaxFairLines lines
CallBrief ==
    /\ pc = "idle"
    /\ patch' \in { Join(ls) : ls \in UNION { [1..n -> PatchLines] : n \in 0..MaxFairLines } }
    /\ pc' = "call"
    /\ UNCHANGED <<lines, idx, currentLine, changes, result, log>>
    /\ UNCHANGED beyondPatch

\* the same call, on one of the long patches
CallLong ==
    /\ pc = "idle"
    /\ patch' \in { Join(ls) : ls \in LongPatches }
    /\ pc' = "call"
    /\ UNCHANGED <<lines, idx, currentLine, changes, result, log>>
    /\ UNCHANGED beyondPatch

\* the counter kept from the call before: currentLine declared outside
EnterKeepsCounter ==
    /\ pc = "call"
    /\ lines' = Split(patch)
    /\ changes' = << >>
    /\ idx' = 1
    /\ pc' = "loop"
    /\ UNCHANGED <<patch, result, log, currentLine>>
    /\ UNCHANGED beyondPatch

\* line numbers counted from 1: let currentLine = 1;
EnterAtOne ==
    /\ pc = "call"
    /\ lines' = Split(patch)
    /\ changes' = << >>
    /\ currentLine' = 1
    /\ idx' = 1
    /\ pc' = "loop"
    /\ UNCHANGED <<patch, result, log>>
    /\ UNCHANGED beyondPatch

\* const lines = patch.split('\n'); const changes = []; let currentLine = 0;
Enter ==
    /\ pc = "call"
    /\ lines' = Split(patch)
    /\ changes' = << >>
    /\ currentLine' = 0
    /\ idx' = 1
    /\ pc' = "loop"
    /\ UNCHANGED <<patch, result, log>>
    /\ UNCHANGED beyondPatch

InLoop == pc = "loop" /\ idx <= Len(lines)

\* the header read as an offset: currentLine += parseInt(match[2])
HunkHeaderRelative ==
    /\ InLoop
    /\ IsHunkLine(lines[idx])
    /\ currentLine' = currentLine
            + (IF MatchGuard(HunkMatch(lines[idx])) THEN ParseInt(HunkMatch(lines[idx])) ELSE 0)
    /\ idx' = idx + 1
    /\ UNCHANGED <<patch, lines, changes, result, pc, log>>
    /\ UNCHANGED beyondPatch

\* if (line.startsWith('@@')) {
\*     const match = line.match(...);
\*     if (match) { currentLine = parseInt(match[2]); } }
\* Reading match[2] of a null match throws a TypeError, which leaves parsePatch.
HunkHeader ==
    /\ InLoop
    /\ IsHunkLine(lines[idx])
    /\ \E match \in {HunkMatch(lines[idx])} :
           IF MatchGuard(match)
           THEN IF match = << >>
                THEN /\ pc' = "threw"
                     /\ UNCHANGED <<currentLine, idx>>
                ELSE /\ currentLine' = ParseInt(match)
                     /\ idx' = idx + 1
                     /\ pc' = pc
           ELSE /\ idx' = idx + 1
                /\ UNCHANGED <<currentLine, pc>>
    /\ UNCHANGED <<patch, lines, changes, result, log>>
    /\ UNCHANGED beyondPatch

\* an addition without its currentLine++
AdditionStays ==
    /\ InLoop
    /\ IsAddition(lines[idx])
    /\ changes' = Append(changes, Change("addition", currentLine, lines[idx]))
    /\ idx' = idx + 1
    /\ UNCHANGED <<patch, lines, currentLine, result, pc, log>>
    /\ UNCHANGED beyondPatch

\* changes.push({type: 'addition', line: currentLine, content: line}); currentLine++;
Addition ==
    /\ InLoop
    /\ IsAddition(lines[idx])
    /\ changes' = Append(changes, Change("addition", currentLine, lines[idx]))
    /\ currentLine' = currentLine + 1
    /\ idx' = idx + 1
    /\ UNCHANGED <<patch, lines, result, pc, log>>
    /\ UNCHANGED beyondPatch

\* a deletion that also advances the counter
DeletionAdvances ==
    /\ InLoop
    /\ IsDeletion(lines[idx])
    /\ changes' = Append(changes, Change("deletion", currentLine, lines[idx]))
    /\ currentLine' = currentLine + 1
    /\ idx' = idx + 1
    /\ UNCHANGED <<patch, lines, result, pc, log>>
    /\ UNCHANGED beyondPatch

\* changes.push({type: 'deletion', line: currentLine, content: line});
Deletion ==
    /\ InLoop
    /\ IsDeletion(lines[idx])
    /\ changes' = Append(changes, Change("deletion", currentLine, lines[idx]))
    /\ idx' = idx + 1
    /\ UNCHANGED <<patch, lines, currentLine, result, pc, log>>
    /\ UNCHANGED beyondPatch

\* else if (!line.startsWith('\\')) { currentLine++; }
Counted ==
    /\ InLoop
    /\ IsCounted(lines[idx])
    /\ currentLine' = currentLine + 1
    /\ idx' = idx + 1
    /\ UNCHANGED <<patch, lines, changes, result, pc, log>>
    /\ UNCHANGED beyondPatch

\* a line that starts with '\': no branch is taken
Skipped ==
    /\ InLoop
    /\ IsSkipped(lines[idx])
    /\ idx' = idx + 1
    /\ UNCHANGED <<patch, lines, currentLine, changes, result, pc, log>>
    /\ UNCHANGED beyondPatch

\* return changes.slice(0, 10);
Return ==
    /\ pc = "loop"
    /\ idx > Len(lines)
    /\ result' = Slice10(changes)
    /\ pc' = "done"
    /\ log' = Append(log, [patch |-> patch, result |-> Slice10(changes)])
    /\ UNCHANGED <<patch, lines, idx, currentLine, changes>>
    /\ UNCHANGED beyondPatch

\* the body of parsePatch
Body == Enter \/ HunkHeader \/ Addition \/ Deletion \/ Counted \/ Skipped \/ Return

Next == Call \/ Body

Spec == Init /\ [][Next]_vars

\* the call runs to completion: JavaScript runs a synchronous function
\* without interruption
NextBrief == CallBrief \/ Body

FairSpec == Init /\ [][NextBrief]_vars /\ WF_vars(Body)

\* the calls on the long patches
NextCap == CallLong \/ Body

SpecCap == Init /\ [][NextCap]_vars

\* the patches of the files of one fetchGitHubData
FilePatches ==
    { Join(ls) : ls \in Examples \cup { <<AddLine>>, <<CtxLine, DelLine>>, <<HunkLate, AddLine, NoNewline>> } }

\* files.map(file => ... parsePatch(file.patch) ...): the call for the next
\* file, after the call for the file before it has returned
CallNext ==
    /\ pc \in {"idle", "done"}
    /\ Len(log) < MaxCalls
    /\ patch' \in FilePatches
    /\ pc' = "call"
    /\ UNCHANGED <<lines, idx, currentLine, changes, result, log>>
    /\ UNCHANGED beyondPatch

NextCalls == CallNext \/ Body

SpecCalls == Init /\ [][NextCalls]_vars


----------------------------------------------------------------------------
(* Properties of parsePatch.  They are stated on the text of the lines,    *)
(* not through the predicates of the loop's branches.                      *)

\* a line that starts with '+' or '-' and is not a '+++' / '---' marker
Qualifies(line) ==
    /\ Len(line) > 0
    /\ \/ line[1] = "+" /\ ~HasAt(line, 1, <<"+", "+", "+">>)
       \/ line[1] = "-" /\ ~HasAt(line, 1, <<"-", "-", "-">>)

\* the lines of the input that start with '+' or '-', markers included
SignedLines == { p \in DOMAIN lines : Len(lines[p]) > 0 /\ lines[p][1] \in {"+", "-"} }

\* C1: whatever the input, parsePatch returns at most 10 records.
AtMostTenRecords == pc = "done" => Len(result) <= 10

\* C1 witness: a call returned on an input with more than ten '+'/'-' lines
ManySignedLinesReturned == pc = "done" /\ Cardinality(SignedLines) > 10

\* C2: the result is the order-preserving prefix, of length min(10, number of
\* qualifying lines), of the qualifying lines of the input; exactly 10 records
\* when more than 10 lines qualify.
FirstTenInOrder ==
    pc = "done" =>
        LET q == SelectSeq(lines, Qualifies)
            n == IF Len(q) < 10 THEN Len(q) ELSE 10
        IN  /\ Len(result) = n
            /\ \A k \in 1..n : result[k].content = q[k]

\* C2 witness: more than ten qualifying lines, with a line that does not
\* qualify among them, and ten records returned
TruncatedToTen ==
    /\ pc = "done"
    /\ Len(SelectSeq(lines, Qualifies)) > 10
    /\ \E p \in 2..9 : ~Qualifies(lines[p])
    /\ Len(result) = 10


\* the positions, in ascending order, of the qualifying lines of ls from p on
RECURSIVE QualifyingFrom(_, _)
QualifyingFrom(ls, p) ==
    IF p > Len(ls) THEN << >>
    ELSE (IF Qualifies(ls[p]) THEN <<p>> ELSE << >>) \o QualifyingFrom(ls, p + 1)

\* the k-th record comes from the k-th qualifying line
RecordPos(ls) == QualifyingFrom(ls, 1)

\* the fields of a hunk header '@@ -a[,b] +c[,d] @@' that starts the line; a
\* length that is left out is 1; ok says whether the line is such a header
HunkFields(s) ==
    LET b == DigitRunEnd(s, 5)
        c == IF HasAt(s, b, <<",">>) THEN b + 1 ELSE b
        d == DigitRunEnd(s, c)
        f == DigitRunEnd(s, d + 2)
        g == IF HasAt(s, f, <<",">>) THEN f + 1 ELSE f
        h == DigitRunEnd(s, g)
    IN  [ ok       |-> /\ HasAt(s, 1, <<"@", "@", " ", "-">>)
                       /\ b > 5
                       /\ (c > b => d > c)
                       /\ HasAt(s, d, <<" ", "+">>)
                       /\ f > d + 2
                       /\ (g > f => h > g)
                       /\ HasAt(s, h, <<" ", "@", "@">>),
          oldStart |-> ParseInt(SubSeq(s, 5, b - 1)),
          oldLen   |-> IF c > b THEN ParseInt(SubSeq(s, c, d - 1)) ELSE 1,
          newStart |-> ParseInt(SubSeq(s, d + 2, f - 1)),
          newLen   |-> IF g > f THEN ParseInt(SubSeq(s, g, h - 1)) ELSE 1 ]

\* the body lines of the hunk ls whose first character is in cs
BodyLines(ls, cs) == { p \in 2..Len(ls) : ls[p][1] \in cs }

\* one hunk of a unified diff: a header, then context (' '), added ('+') and
\* removed ('-') lines, as many of each as the header's lengths say
WellFormedHunk(ls) ==
    /\ Len(ls) >= 2
    /\ HunkFields(ls[1]).ok
    /\ \A p \in 2..Len(ls) : Len(ls[p]) > 0 /\ ls[p][1] \in {" ", "+", "-"}
    /\ Cardinality(BodyLines(ls, {" ", "-"})) = HunkFields(ls[1]).oldLen
    /\ Cardinality(BodyLines(ls, {" ", "+"})) = HunkFields(ls[1]).newLen

\* the number, in the new file, of the body line p of the hunk ls
NewFileNumber(ls, p) ==
    HunkFields(ls[1]).newStart
        + Cardinality({ j \in BodyLines(ls, {" ", "+"}) : j < p })

\* C3: on a well-formed hunk, every addition record carries the number its
\* line has in the new file.
AdditionsCarryNewFileNumber ==
    (pc = "done" /\ WellFormedHunk(lines)) =>
        \A k \in 1..Len(result) :
            result[k].type = "addition" =>
                result[k].line = NewFileNumber(lines, RecordPos(lines)[k])


\* a line that starts with '@@' and matches the hunk-header pattern
MatchingHeader(line) == HasAt(line, 1, <<"@", "@">>) /\ HunkMatch(line) # << >>

\* the new-file start of a matching header
NewStart(line) == ParseInt(HunkMatch(line))

\* a context line: it starts with none of '@@', '\', a qualifying '+' or '-'
ContextLine(line) ==
    /\ ~HasAt(line, 1, <<"@", "@">>)
    /\ ~HasAt(line, 1, <<"\\">>)
    /\ ~Qualifies(line)

AdditionLine(line) == Qualifies(line) /\ line[1] = "+"

\* the last matching header of ls before position p, 0 when there is none
LastHeaderBefore(ls, p) ==
    LET hs == { h \in 1..(p - 1) : MatchingHeader(ls[h]) }
    IN  IF hs = {} THEN 0 ELSE CHOOSE h \in hs : \A g \in hs : g <= h

\* C4: after a matching header with new-file start S, a record's line is S
\* plus the number of context and addition lines between the header and the
\* record's line; the hunk of the specification's example yields a deletion
\* and an addition, both at line 2.
LineCountsFromHeader ==
    pc = "done" =>
        /\ \A k \in 1..Len(result) :
              LET p == RecordPos(lines)[k]
                  h == LastHeaderBefore(lines, p)
              IN  h > 0 =>
                    result[k].line = NewStart(lines[h])
                        + Cardinality({ j \in (h + 1)..(p - 1) :
                              ContextLine(lines[j]) \/ AdditionLine(lines[j]) })
        /\ patch \in { Join(HunkExample), Join(SpecExample) } =>
              result = << [type |-> "deletion", line |-> 2, content |-> DelLine],
                          [type |-> "addition", line |-> 2, content |-> AddLine] >>

\* C4 witness: the call on the example has returned its two records
ExampleParsed ==
    pc = "done" /\ patch = Join(HunkExample) /\ Len(result) = 2

\* C5: a record that follows a matching header, with no line in between that
\* advances the counter, carries the header's new-file start Y, wherever the
\* header is and whatever was scanned before it.
HeaderResetsCounter ==
    pc = "done" =>
        \A k \in 1..Len(result) :
            LET p == RecordPos(lines)[k]
            IN  \A h \in 1..(p - 1) :
                    ( /\ MatchingHeader(lines[h])
                      /\ \A j \in (h + 1)..(p - 1) :
                            /\ ~MatchingHeader(lines[j])
                            /\ ~ContextLine(lines[j])
                            /\ ~AdditionLine(lines[j]) )
                    => result[k].line = NewStart(lines[h])

\* C5 witness: a second header after the counter has advanced to 4, and the
\* records after it numbered from 7
SecondHeaderParsed ==
    /\ pc = "done"
    /\ patch = Join(TwoHunkExample)
    /\ Len(result) = 3
    /\ result[1].line = 2
    /\ result[2].line = 7

\* C6: no record ever comes from a line that begins with '+++' or '---'.
NoFileHeaderRecords ==
    \A k \in 1..Len(changes) :
        /\ ~HasAt(changes[k].content, 1, <<"+", "+", "+">>)
        /\ ~HasAt(changes[k].content, 1, <<"-", "-", "-">>)
        /\ \E p \in 1..(idx - 1) : lines[p] = changes[k].content

\* C6 witness: both markers were scanned and only the two changes returned
FileHeadersSkipped ==
    pc = "done" /\ patch = Join(FileHeaderExample) /\ Len(result) = 2


\* the scan is at a line that starts with '@@' and does not match the pattern
AtMalformedHeader ==
    /\ pc = "loop"
    /\ idx <= Len(lines)
    /\ HasAt(lines[idx], 1, <<"@", "@">>)
    /\ HunkMatch(lines[idx]) = << >>

\* C7 as stated: a line that starts with '@@' and does not match the pattern
\* is a context line; it emits no record, adds 1 to currentLine, and does
\* not throw.
MalformedHeaderCounts ==
    [][AtMalformedHeader =>
          /\ changes' = changes
          /\ currentLine' = currentLine + 1
          /\ pc' # "threw"]_vars

\* C7 as amended: a line that starts with '@@' and does not match the pattern
\* emits no record, leaves currentLine as it is, and does not throw.
MalformedHeaderIsNoOp ==
    [][AtMalformedHeader =>
          /\ changes' = changes
          /\ currentLine' = currentLine
          /\ idx' = idx + 1
          /\ pc' # "threw"]_vars

\* C7 witness: a malformed header was scanned after one counted line
MalformedHeaderScanned ==
    /\ pc = "loop"
    /\ Len(lines) = 3
    /\ idx = 3
    /\ lines[1] = CtxLine
    /\ lines[2] = HunkBad
    /\ currentLine = 1

\* C8: a header with one or both lengths left out is a header, and
\* currentLine becomes its new-file start; the lengths of a header are never
\* what currentLine becomes.
HeaderWithoutLengths ==
    (pc \in {"loop", "done"} /\ idx > 1) =>
        LET l == lines[idx - 1]
        IN  /\ l = HunkBare => currentLine = 5
            /\ l = HunkOldLen => currentLine = 7
            /\ l = HunkNewLen => currentLine = 7
            /\ HunkFields(l).ok => currentLine = HunkFields(l).newStart

\* C8 witness: records numbered from the start of a header that has no
\* new-file length
BareHeaderParsed ==
    /\ pc = "done"
    /\ Len(lines) = 3
    /\ lines[1] = CtxLine
    /\ lines[2] = HunkOldLen
    /\ Len(result) = 1
    /\ result[1].line = 7

\* no line of the input starts with '+', '-' or '@@'
NoMarkers ==
    \A p \in DOMAIN lines :
        /\ ~HasAt(lines[p], 1, <<"+">>)
        /\ ~HasAt(lines[p], 1, <<"-">>)
        /\ ~HasAt(lines[p], 1, <<"@", "@">>)

\* C9: an input with no line that starts with '+', '-' or '@@' (the empty
\* input is one) yields the empty sequence.
NoMarkersNoRecords == (pc = "done" /\ NoMarkers) => result = << >>

\* C9 witness: three lines without markers were counted and nothing returned
ContextOnlyParsed ==
    /\ pc = "done"
    /\ NoMarkers
    /\ Len(lines) = 3
    /\ lines[2] = CtxSigns
    /\ currentLine = 3
    /\ result = << >>

\* C10: every call returns: it reaches "done", and so never throws, on every
\* input.
AlwaysReturns == (pc = "call") ~> (pc = "done")

\* C10 witness: a call returned on an input with a malformed header
ReturnedDespiteMalformedHeader ==
    /\ pc = "done"
    /\ \E p \in DOMAIN lines : lines[p] = HunkBad
    /\ Len(result) > 0


\* C11: every returned record has type addition or deletion, a line that is
\* an integer >= 0 and, as content, the input line it comes from, unmodified;
\* the content starts with '+' exactly when the type is addition and with '-'
\* exactly when it is deletion.
RecordsWellFormed ==
    pc = "done" =>
        \A k \in 1..Len(result) :
            /\ result[k].type \in {"addition", "deletion"}
            /\ result[k].line \in Nat
            /\ result[k].content = lines[RecordPos(lines)[k]]
            /\ HasAt(result[k].content, 1, <<"+">>) <=> result[k].type = "addition"
            /\ HasAt(result[k].content, 1, <<"-">>) <=> result[k].type = "deletion"

\* C11 witness: a deletion and an addition were returned
BothTypesReturned ==
    /\ pc = "done"
    /\ Len(result) = 2
    /\ result[1].type = "deletion"
    /\ result[2].type = "addition"
    /\ result[2].line > 0

\* two qualifying lines of the input that follow each other directly are the
\* sources of the records k and k + 1
AdjacentRecords(k) ==
    /\ k + 1 <= Len(changes)
    /\ RecordPos(lines)[k + 1] = RecordPos(lines)[k] + 1

\* C14: a deletion leaves the counter alone and an addition advances it by
\* exactly 1: the record of the line right after a deletion (another deletion
\* or an addition) carries the same number, the record of the line right
\* after an addition carries the next number.
DeletionKeepsAdditionAdvances ==
    \A k \in 1..Len(changes) :
        AdjacentRecords(k) =>
            /\ HasAt(changes[k].content, 1, <<"-">>) => changes[k + 1].line = changes[k].line
            /\ HasAt(changes[k].content, 1, <<"+">>) => changes[k + 1].line = changes[k].line + 1

\* C14 witness: two deletions and then an addition, all three with the number
\* of the header
DeletionsThenAddition ==
    /\ pc = "done"
    /\ Len(lines) = 3
    /\ lines[1] = DelLine /\ lines[2] = DelLine /\ lines[3] = AddLine
    /\ Len(result) = 3
    /\ result[1].line = result[3].line

\* C16: before any matching header the counter starts at 0: a record that
\* no matching header precedes carries the number of context and addition
\* lines before its line, so 0 on the first line of the input.
CountsFromZero ==
    pc = "done" =>
        \A k \in 1..Len(result) :
            LET p == RecordPos(lines)[k]
            IN  LastHeaderBefore(lines, p) = 0 =>
                    result[k].line =
                        Cardinality({ j \in 1..(p - 1) :
                            ContextLine(lines[j]) \/ AdditionLine(lines[j]) })

\* C16 witness: an input without header whose first line is recorded at 0
\* and whose third line, after an addition and a context line, at 2
HeaderlessParsed ==
    /\ pc = "done"
    /\ Len(lines) = 3
    /\ lines[1] = AddLine /\ lines[2] = CtxLine /\ lines[3] = DelLine
    /\ Len(result) = 2
    /\ result[1].line = 0
    /\ result[2].line = 2


\* The scan of the lines ls from position p on, with the counter at cur and
\* the records recs emitted so far, that stops at the end of ls or as soon as
\* cap records are emitted: its records and the counter where it stopped.
RECURSIVE Scan(_, _, _, _, _)
Scan(ls, p, cur, recs, cap) ==
    IF p > Len(ls) \/ Len(recs) >= cap THEN [recs |-> recs, cur |-> cur]
    ELSE IF MatchingHeader(ls[p]) THEN Scan(ls, p + 1, NewStart(ls[p]), recs, cap)
    ELSE IF HasAt(ls[p], 1, <<"@", "@">>) THEN Scan(ls, p + 1, cur, recs, cap)
    ELSE IF AdditionLine(ls[p]) THEN
        Scan(ls, p + 1, cur + 1,
             Append(recs, [type |-> "addition", line |-> cur, content |-> ls[p]]), cap)
    ELSE IF Qualifies(ls[p]) THEN
        Scan(ls, p + 1, cur,
             Append(recs, [type |-> "deletion", line |-> cur, content |-> ls[p]]), cap)
    ELSE IF ContextLine(ls[p]) THEN Scan(ls, p + 1, cur + 1, recs, cap)
    ELSE Scan(ls, p + 1, cur, recs, cap)

\* C12: the scan that stops as soon as 10 records are emitted returns what
\* parsePatch returns, which scans every line and then keeps the first 10.
EarlyStopSameResult ==
    pc = "done" => result = Scan(lines, 1, 0, << >>, 10).recs

\* C12 witness: the tenth record was emitted before the end of the input,
\* and lines that emit and lines that count came after it
ScannedPastTheCap ==
    /\ pc = "done"
    /\ Len(changes) > 10
    /\ Len(result) = 10
    /\ \E p \in DOMAIN lines : p > RecordPos(lines)[10] /\ ContextLine(lines[p])

\* the lines of ls that do not start with '\'
NotMarker(line) == ~HasAt(line, 1, <<"\\">>)

\* C15: a line that starts with '\' emits no record and leaves the counter
\* alone: the result, and the counter at the end, are those of the input
\* with every such line removed.
NoNewlineMarkerIsNoOp ==
    pc = "done" =>
        LET without == Scan(SelectSeq(lines, NotMarker), 1, 0, << >>, Len(lines) + 1)
        IN  /\ result = SubSeq(without.recs, 1,
                               IF Len(without.recs) < 10 THEN Len(without.recs) ELSE 10)
            /\ currentLine = without.cur

\* C15 witness: a '\' line between a counted line and an addition
MarkerBetweenLines ==
    /\ pc = "done"
    /\ Len(lines) = 3
    /\ lines[1] = CtxLine /\ lines[2] = NoNewline /\ lines[3] = AddLine
    /\ Len(result) = 1
    /\ result[1].line = 1


\* C13: parsePatch keeps nothing between calls: two calls on the same patch
\* return equal sequences whatever was parsed in between, and every call
\* starts its scan with currentLine at 0.
NoStateBetweenCalls ==
    /\ \A i, j \in 1..Len(log) : log[i].patch = log[j].patch => log[i].result = log[j].result
    /\ (pc = "loop" /\ idx = 1) => currentLine = 0

\* C13 witness: a patch parsed, another one that left the counter elsewhere
\* parsed after it, and the first one parsed again
SamePatchParsedAgain ==
    /\ Len(log) = 3
    /\ log[1].patch = log[3].patch
    /\ log[2].patch # log[1].patch
    /\ log[1].result # << >>
    /\ log[2].result # log[1].result
    /\ currentLine > 0


----------------------------------------------------------------------------
(* ProposalOwner: the activity records and their aggregation.              *)

\* the user_id values of the activity records
Users == {"u1", "u2"}

\* the username the records of a user carry
Username(u) == IF u = "u1" THEN "alice" ELSE "bob"

\* created_at values: two instants, the second one written in two ways
Timestamps ==
    { "2024-01-01T00:00:00Z", "2024-01-02T00:00:00Z", "2024-01-02T02:00:00+02:00" }

\* new Date(s), as compared by < and > and as getTime() gives it: the hours
\* from 2024-01-01T00:00:00Z to the instant s denotes
DateTime(s) ==
    CASE s = "2024-01-01T00:00:00Z" -> 0
      [] s = "2024-01-02T00:00:00Z" -> 24
      [] s = "2024-01-02T02:00:00+02:00" -> 24

\* interface BranchActivity
BranchRecords ==
    { [user_id |-> u, username |-> Username(u), created_at |-> t] :
        u \in Users, t \in Timestamps }

PullActions == {"created", "merged", "closed"}

\* interface PullRequestActivity
PullRecords ==
    { [user_id |-> u, username |-> Username(u), action |-> a, created_at |-> t] :
        u \in Users, a \in PullActions, t \in Timestamps }

\* every activity of at most MaxRecords records
ActivityInputs ==
    UNION { { [branches |-> b, pullRequests |-> p] :
                b \in [1..n[1] -> BranchRecords], p \in [1..n[2] -> PullRecords] } :
            n \in { m \in (0..MaxRecords) \X (0..MaxRecords) : m[1] + m[2] <= MaxRecords } }

\* collaboratorMap.set(key, { ... }): the entry made for the first record of a user
NewCollaborator(rec) ==
    [ username |-> rec.username,
      user_id |-> rec.user_id,
      github_login |-> rec.username,
      avatar_url |-> <<"https://github.com/", rec.username, ".png">>,
      wallet_address |-> Undefined,
      branches_count |-> 0,
      prs_count |-> 0,
      first_contribution |-> rec.created_at,
      last_activity |-> rec.created_at,
      merged_prs |-> 0,
      open_prs |-> 0,
      branches |-> << >>,
      pull_requests |-> << >> ]

\* collaboratorMap.has(key) / collaboratorMap.get(key): the place of the entry
\* of key in the Map, which keeps its entries in the order they were set; 0
\* when there is none
EntryOf(map, key) ==
    IF \E i \in DOMAIN map : map[i].user_id = key
    THEN CHOOSE i \in DOMAIN map : map[i].user_id = key
    ELSE 0

\* the dates never moved: first and last stay those of the first record
TouchDatesNever(c, rec) == c

\* if (new Date(rec.created_at) < new Date(c.first_contribution)) ...
\* if (new Date(rec.created_at) > new Date(c.last_activity)) ...
TouchDates(c, rec) ==
    [c EXCEPT
        !.first_contribution =
            IF DateTime(rec.created_at) < DateTime(@) THEN rec.created_at ELSE @,
        !.last_activity =
            IF DateTime(rec.created_at) > DateTime(@) THEN rec.created_at ELSE @]

\* the entry of a user replaced at each of the user's branch records
AddBranchAfresh(map, branch) ==
    LET i == EntryOf(map, branch.user_id)
        c == [NewCollaborator(branch) EXCEPT !.branches_count = @ + 1,
                                             !.branches = Append(@, branch)]
    IN  IF i = 0 THEN Append(map, c) ELSE [map EXCEPT ![i] = c]

\* the body of activityData.branches?.forEach (lines 261-295)
AddBranch(map, branch) ==
    LET i == EntryOf(map, branch.user_id)
        entry == IF i = 0 THEN NewCollaborator(branch) ELSE map[i]
        c == TouchDates([entry EXCEPT !.branches_count = @ + 1,
                                      !.branches = Append(@, branch)], branch)
    IN  IF i = 0 THEN Append(map, c) ELSE [map EXCEPT ![i] = c]

\* the body of activityData.pullRequests?.forEach (lines 298-336)
AddPull(map, pr) ==
    LET i == EntryOf(map, pr.user_id)
        entry == IF i = 0 THEN NewCollaborator(pr) ELSE map[i]
        c == TouchDates(
                 [entry EXCEPT
                     !.prs_count = @ + 1,
                     !.pull_requests = Append(@, pr),
                     !.merged_prs = IF pr.action = "merged" THEN @ + 1 ELSE @,
                     !.open_prs = IF pr.action # "merged" /\ pr.action = "created"
                                  THEN @ + 1 ELSE @], pr)
    IN  IF i = 0 THEN Append(map, c) ELSE [map EXCEPT ![i] = c]

\* activityData.branches?.forEach(...)
RECURSIVE ForEachBranch(_, _)
ForEachBranch(map, branches) ==
    IF branches = << >> THEN map
    ELSE ForEachBranch(AddBranch(map, Head(branches)), Tail(branches))

\* activityData.pullRequests?.forEach(...)
RECURSIVE ForEachPull(_, _)
ForEachPull(map, pulls) ==
    IF pulls = << >> THEN map
    ELSE ForEachPull(AddPull(map, Head(pulls)), Tail(pulls))

\* collaboratorMap after both passes; its user ids, in order, are userIds
CollaboratorMap(data) ==
    ForEachPull(ForEachBranch(<< >>, data.branches), data.pullRequests)

\* what GET /api/user/:id answers for each user
UserData(u) ==
    IF u = "u1"
    THEN [walletAddress |-> "0xA1", wallet_address |-> Undefined, avatar_url |-> "cdn/alice.png"]
    ELSE [walletAddress |-> Undefined, wallet_address |-> "0xB2", avatar_url |-> Undefined]

\* a || b
Or(a, b) == IF a \in {Undefined, Null, ""} THEN b ELSE a

\* the body of collaboratorMap.forEach (lines 342-359); details holds the
\* users whose request was answered OK
MergeDetails(c, details) ==
    IF c.user_id \in details
    THEN LET userDetails == UserData(c.user_id)
         IN  [c EXCEPT
                 !.wallet_address = Or(userDetails.walletAddress, userDetails.wallet_address),
                 !.avatar_url = IF userDetails.avatar_url \in {Undefined, Null, ""}
                                THEN @ ELSE userDetails.avatar_url]
    ELSE c

\* the comparator's key: new Date(c.last_activity).getTime()
LastActivityTime(c) == DateTime(c.last_activity)

\* c put into an array sorted by last activity, latest first, after the
\* elements that do not sort after it
Insert(sorted, c) ==
    LET k == Cardinality({ i \in DOMAIN sorted :
                             LastActivityTime(sorted[i]) >= LastActivityTime(c) })
    IN  SubSeq(sorted, 1, k) \o <<c>> \o SubSeq(sorted, k + 1, Len(sorted))

\* .sort((a, b) => new Date(b.last_activity).getTime() - new Date(a.last_activity).getTime()):
\* stable, latest first
RECURSIVE SortByLastActivity(_)
SortByLastActivity(array) ==
    IF array = << >> THEN << >>
    ELSE Insert(SortByLastActivity(SubSeq(array, 1, Len(array) - 1)), array[Len(array)])

\* collaboratorsArray (lines 342-362)
CollaboratorsArray(map, details) ==
    SortByLastActivity([i \in DOMAIN map |-> MergeDetails(map[i], details)])

----------------------------------------------------------------------------
(* ProposalOwner: processCollaboratorsFromActivity and its requests.       *)

\* a request in flight, or a timer: the function that waits for it (kind),
\* the handler that started it (batch), for processCollaboratorsFromActivity
\* its caller (from), its collaboratorMap (map), the user ids still to ask for
\* (remaining) and the users answered OK so far (details)
Task(kind, batch) ==
    [kind |-> kind, batch |-> batch, from |-> kind,
     map |-> << >>, remaining |-> << >>, details |-> {}]

\* processCollaboratorsFromActivity(data) up to its first request: with no
\* user id, fetchUserDetails returns at once and setCollaborators([]) runs
\* before any response can arrive
ProcessCollaborators(data, batch, from, others) ==
    LET map == CollaboratorMap(data)
    IN  IF map = << >>
        THEN /\ collaborators' = CollaboratorsArray(map, {})
             /\ tasks' = others
        ELSE /\ tasks' = others \cup
                    { [kind |-> "details", batch |-> batch, from |-> from, map |-> map,
                       remaining |-> [i \in DOMAIN map |-> map[i].user_id],
                       details |-> {}] }
             /\ UNCHANGED collaborators

\* refreshAll's Promise.all has resolved and its continuation has not run
SettleDue == refreshing /\ ~\E t \in tasks : t.batch = "refresh"

\* the answer to one GET /api/user/:id of fetchUserDetails: OK, not OK, or
\* a network error, which returns an empty Map; after the last answer the
\* rest of processCollaboratorsFromActivity runs
DetailsResponse ==
    /\ ~SettleDue
    /\ \E t \in tasks : \E outcome \in {"ok", "status", "error"} :
        /\ t.kind = "details"
        /\ LET remaining == IF outcome = "error" THEN << >> ELSE Tail(t.remaining)
               details == CASE outcome = "ok" -> t.details \cup {Head(t.remaining)}
                            [] outcome = "status" -> t.details
                            [] outcome = "error" -> {}
           IN  IF remaining = << >>
               THEN /\ collaborators' = CollaboratorsArray(t.map, details)
                    /\ tasks' = tasks \ {t}
               ELSE /\ tasks' = (tasks \ {t}) \cup
                           {[t EXCEPT !.remaining = remaining, !.details = details]}
                    /\ UNCHANGED collaborators
        /\ failed' = (failed \/ (outcome # "ok" /\ t.batch = "mount"))
    /\ UNCHANGED <<alone, currentUser, proposal, activity, openPRs, loading, error, success,
                   refreshing, serverActivity, activityData, pcOwner, refreshes,
                   requested, fetched>>
    /\ UNCHANGED beyondOwner

\* processCollaboratorsFromActivity(activityData), called on its own
ProcessCall ==
    /\ pcOwner = "rendered"
    /\ pcOwner' = "called"
    /\ ProcessCollaborators(activityData, "call", "call", tasks)
    /\ UNCHANGED <<alone, currentUser, proposal, activity, openPRs, loading, error, success,
                   refreshing, serverActivity, activityData, refreshes,
                   requested, fetched, failed>>
    /\ UNCHANGED beyondOwner

\* the page as first rendered, and an activity to aggregate
InitProcess ==
    /\ PatchIdle
    /\ PagesIdle
    /\ currentUser = NoUser
    /\ InitialRender
    /\ serverActivity = EmptyActivity
    /\ tasks = {}
    /\ activityData \in ActivityInputs
    /\ pcOwner = "rendered"
    /\ refreshes = 0
    /\ requested = {}
    /\ fetched = {}
    /\ failed = FALSE
    /\ alone = TRUE

NextProcess == ProcessCall \/ DetailsResponse

SpecProcess == InitProcess /\ [][NextProcess]_vars

----------------------------------------------------------------------------
(* Properties of processCollaboratorsFromActivity.                         *)

\* processCollaboratorsFromActivity(activityData) has run to its end
Processed == pcOwner = "called" /\ tasks = {}

\* the records of activityData, of either kind, of user u
BranchesOf(u) == { i \in DOMAIN activityData.branches : activityData.branches[i].user_id = u }
PullsOf(u) == { i \in DOMAIN activityData.pullRequests : activityData.pullRequests[i].user_id = u }

\* the instants of the records of user u
TimesOf(u) ==
    { DateTime(activityData.branches[i].created_at) : i \in BranchesOf(u) }
        \cup { DateTime(activityData.pullRequests[i].created_at) : i \in PullsOf(u) }

\* C17: one collaborator for each user_id of the branch and pull-request
\* records and none besides; branches_count and prs_count are the numbers of
\* the user's branch and pull-request records, and merged_prs + open_prs is
\* at most prs_count.
OneCollaboratorPerUser ==
    Processed =>
        /\ { collaborators[i].user_id : i \in DOMAIN collaborators }
               = { u \in Users : BranchesOf(u) \cup PullsOf(u) # {} }
        /\ \A i, j \in DOMAIN collaborators :
               collaborators[i].user_id = collaborators[j].user_id => i = j
        /\ \A i \in DOMAIN collaborators :
               LET c == collaborators[i]
               IN  /\ c.branches_count = Cardinality(BranchesOf(c.user_id))
                   /\ c.prs_count = Cardinality(PullsOf(c.user_id))
                   /\ c.merged_prs + c.open_prs <= c.prs_count

\* C17 witness: two pull requests of one user, one of them neither merged
\* nor open, made one collaborator
OneCollaboratorFromTwoRecords ==
    /\ Processed
    /\ Len(activityData.pullRequests) = 2
    /\ Len(collaborators) = 1
    /\ collaborators[1].prs_count = 2
    /\ collaborators[1].merged_prs + collaborators[1].open_prs = 1

\* C18: first_contribution is the earliest and last_activity the latest
\* created_at of the user's records, so the first is not after the last, and
\* the array is in descending order of last_activity.
DatesAndOrder ==
    Processed =>
        /\ \A i \in DOMAIN collaborators :
               LET c == collaborators[i]
               IN  /\ DateTime(c.first_contribution) \in TimesOf(c.user_id)
                   /\ DateTime(c.last_activity) \in TimesOf(c.user_id)
                   /\ \A t \in TimesOf(c.user_id) :
                          DateTime(c.first_contribution) <= t /\ t <= DateTime(c.last_activity)
                   /\ DateTime(c.first_contribution) <= DateTime(c.last_activity)
        /\ \A i, j \in DOMAIN collaborators :
               i < j => DateTime(collaborators[i].last_activity)
                            >= DateTime(collaborators[j].last_activity)

\* C18 witness: the user of the first record was last active before the user
\* of the second one, and comes second
SortedByLastActivity ==
    /\ Processed
    /\ Len(activityData.branches) = 1
    /\ Len(activityData.pullRequests) = 1
    /\ Len(collaborators) = 2
    /\ collaborators[2].user_id = activityData.branches[1].user_id
    /\ DateTime(collaborators[1].last_activity) > DateTime(collaborators[2].last_activity)


----------------------------------------------------------------------------
(* ProposalOwner: the effect, Refresh, and the responses of the server.    *)

\* what GET /api/proposals/:id answers
ServerProposal == [id |-> "p1", createdBy |-> [id |-> "u1", username |-> "alice"]]

\* the currentUser prop: left out, the owner, another user, and the owner
\* known by username only
CurrentUsers ==
    { NoUser,
      [id |-> "u1", username |-> "alice"],
      [id |-> "u2", username |-> "bob"],
      [id |-> Undefined, username |-> "alice"] }

\* what GET /api/proposals/:id/activity answers, as the activity grows
ActivityOfOne ==
    [branches |-> <<[user_id |-> "u1", username |-> "alice",
                     created_at |-> "2024-01-01T00:00:00Z"]>>,
     pullRequests |-> << >>]

ActivityOfTwo ==
    [branches |-> ActivityOfOne.branches,
     pullRequests |-> <<[user_id |-> "u2", username |-> "bob", action |-> "created",
                         created_at |-> "2024-01-02T00:00:00Z"]>>]

ServerActivities == <<EmptyActivity, ActivityOfOne, ActivityOfTwo>>

\* what GET /api/proposals/:id/pull-requests answers the owner
ServerPulls == <<[number |-> 7, head |-> "feature", base |-> "main"]>>

\* isProposalOwner(), with the proposal of the render the caller was made in
IsProposalOwner(p, user) ==
    IF p = NoProposal \/ user = NoUser THEN FALSE
    ELSE IF p.createdBy.id # Undefined /\ user.id # Undefined
         THEN p.createdBy.id = user.id
         ELSE p.createdBy.username = user.username

\* fetchProposalData(), fetchActivity(), fetchOpenPRs() and fetchCollaborators()
\* up to their first await, called one after the other from one render:
\* fetchOpenPRs decides by the proposal of that render and fetchCollaborators
\* aggregates the activity of that render
StartFetches(batch) ==
    LET owner == IsProposalOwner(proposal, currentUser)
        started == {Task("proposal", batch), Task("activity", batch)}
                       \cup (IF owner THEN {Task("pulls", batch)} ELSE {})
    IN  /\ ProcessCollaborators(activity, batch, "fetchCollaborators", tasks \cup started)
        /\ requested' = requested \cup { t.kind : t \in started }
        /\ openPRs' = IF owner THEN openPRs ELSE << >>
        /\ loading' = IF owner THEN (batch = "mount" \/ loading) ELSE FALSE

\* useEffect(() => { setLoading(true); setProposal(null); fetchProposalData();
\*                   fetchActivity(); fetchOpenPRs(); fetchCollaborators(); }, [proposalId])
MountEffect ==
    /\ pcOwner = "rendered"
    /\ pcOwner' = "mounted"
    /\ proposal' = NoProposal
    /\ StartFetches("mount")
    /\ error' = IF IsProposalOwner(proposal, currentUser) THEN Null ELSE error
    /\ UNCHANGED <<alone, currentUser, activity, success, refreshing, serverActivity,
                   activityData, refreshes, fetched, failed>>
    /\ UNCHANGED beyondOwner

\* the click on Refresh, which is there once the proposal is shown and is
\* disabled while refreshing: refreshAll up to its await
RefreshAll ==
    /\ pcOwner = "mounted"
    /\ ~loading
    /\ proposal # NoProposal
    /\ ~refreshing
    /\ refreshes < MaxRefreshes
    /\ refreshes' = refreshes + 1
    /\ refreshing' = TRUE
    /\ error' = Null
    /\ fetched' = {}
    /\ alone' = (tasks \subseteq {Task("timer", "timer")})
    /\ StartFetches("refresh")
    /\ UNCHANGED <<currentUser, proposal, activity, success, serverActivity,
                   activityData, pcOwner, failed>>
    /\ UNCHANGED beyondOwner

\* fetchProposalData after its await: if (response.ok) setProposal(...)
ProposalResponse ==
    /\ ~SettleDue
    /\ \E t \in tasks : \E ok \in BOOLEAN :
        /\ t.kind = "proposal"
        /\ tasks' = tasks \ {t}
        /\ proposal' = IF ok THEN ServerProposal ELSE proposal
        /\ failed' = (failed \/ (~ok /\ t.batch = "mount"))
    /\ UNCHANGED <<alone, currentUser, activity, openPRs, loading, error, success, refreshing,
                   collaborators, serverActivity, activityData, pcOwner, refreshes,
                   requested, fetched>>
    /\ UNCHANGED beyondOwner

\* fetchActivity after its await: if (response.ok) { setActivity(data);
\* await processCollaboratorsFromActivity(data); }
ActivityResponse ==
    /\ ~SettleDue
    /\ \E t \in tasks : \E ok \in BOOLEAN :
        /\ t.kind = "activity"
        /\ IF ok
           THEN /\ activity' = serverActivity
                /\ fetched' = IF t.batch = "refresh" THEN {serverActivity} ELSE fetched
                /\ ProcessCollaborators(serverActivity, t.batch, "fetchActivity", tasks \ {t})
           ELSE /\ tasks' = tasks \ {t}
                /\ UNCHANGED <<activity, fetched, collaborators>>
        /\ failed' = (failed \/ (~ok /\ t.batch = "mount"))
    /\ UNCHANGED <<alone, currentUser, proposal, openPRs, loading, error, success, refreshing,
                   serverActivity, activityData, pcOwner, refreshes, requested>>
    /\ UNCHANGED beyondOwner

\* fetchOpenPRs after its await (lines 188-210)
PullsResponse ==
    /\ ~SettleDue
    /\ \E t \in tasks : \E outcome \in {"ok", "403", "401", "other", "error"} :
        /\ t.kind = "pulls"
        /\ tasks' = tasks \ {t}
        /\ openPRs' = IF outcome = "ok" THEN ServerPulls ELSE << >>
        /\ error' = CASE outcome = "ok" -> error
                      [] outcome = "403" ->
                             "You are not authorized to view pull requests for this proposal"
                      [] outcome = "401" -> "Please log in to view pull requests"
                      [] outcome = "other" -> "Failed to fetch pull requests"
                      [] outcome = "error" -> "Network error while fetching pull requests"
        /\ loading' = FALSE
        /\ failed' = (failed \/ (outcome # "ok" /\ t.batch = "mount"))
    /\ UNCHANGED <<alone, currentUser, proposal, activity, success, refreshing, collaborators,
                   serverActivity, activityData, pcOwner, refreshes, requested, fetched>>
    /\ UNCHANGED beyondOwner

\* refreshAll after its await: setSuccess(...); setTimeout(...); and, in the
\* finally, setRefreshing(false).  None of the four promises rejects.
RefreshSettles ==
    /\ SettleDue
    /\ success' = "Data refreshed successfully"
    /\ refreshing' = FALSE
    /\ tasks' = tasks \cup {Task("timer", "timer")}
    /\ UNCHANGED <<alone, currentUser, proposal, activity, openPRs, loading, error,
                   collaborators, serverActivity, activityData, pcOwner, refreshes,
                   requested, fetched, failed>>
    /\ UNCHANGED beyondOwner

\* setTimeout(() => setSuccess(null), 3000)
SuccessTimeout ==
    /\ ~SettleDue
    /\ \E t \in tasks :
        /\ t.kind = "timer"
        /\ tasks' = tasks \ {t}
    /\ success' = Null
    /\ UNCHANGED <<alone, currentUser, proposal, activity, openPRs, loading, error, refreshing,
                   collaborators, serverActivity, activityData, pcOwner, refreshes,
                   requested, fetched, failed>>
    /\ UNCHANGED beyondOwner

\* the place of the server's activity among ServerActivities
ServedStage == CHOOSE k \in DOMAIN ServerActivities : ServerActivities[k] = serverActivity

\* somebody pushes a branch or opens a pull request: the server's activity grows
ServerChange ==
    /\ ~SettleDue
    /\ pcOwner = "mounted"
    /\ ServedStage < Len(ServerActivities)
    /\ serverActivity' = ServerActivities[ServedStage + 1]
    /\ UNCHANGED <<alone, currentUser, proposal, activity, openPRs, loading, error, success,
                   refreshing, collaborators, tasks, activityData, pcOwner, refreshes,
                   requested, fetched, failed>>
    /\ UNCHANGED beyondOwner

\* the page as first rendered, for some currentUser and some activity on the server
InitOwner ==
    /\ PatchIdle
    /\ PagesIdle
    /\ currentUser \in CurrentUsers
    /\ InitialRender
    /\ serverActivity \in { ServerActivities[k] : k \in DOMAIN ServerActivities }
    /\ NothingInFlight

NextOwner ==
    \/ MountEffect
    \/ RefreshAll
    \/ ProposalResponse
    \/ ActivityResponse
    \/ PullsResponse
    \/ DetailsResponse
    \/ RefreshSettles
    \/ SuccessTimeout
    \/ ServerChange

SpecOwner == InitOwner /\ [][NextOwner]_vars

----------------------------------------------------------------------------
(* Properties of ProposalOwner.                                            *)

\* the collaborators without what the user-detail requests add to them
Summary(array) ==
    [i \in DOMAIN array |->
        [array[i] EXCEPT !.wallet_address = Undefined, !.avatar_url = << >>]]

\* C19: when a refreshAll that was started with no other request in flight
\* settles, collaborators is the aggregation of the activity that refresh
\* fetched, whatever order its fetchActivity and fetchCollaborators and their
\* user-detail requests completed in.
RefreshAggregatesFetched ==
    (SettleDue /\ alone) =>
        \A data \in fetched :
            Summary(collaborators) = Summary(CollaboratorsArray(CollaboratorMap(data), {}))

\* the initial load has settled, every request of it answered OK
InitialLoadSettled ==
    /\ pcOwner = "mounted"
    /\ refreshes = 0
    /\ ~\E t \in tasks : t.batch = "mount"
    /\ ~failed

\* the current user is the one who created the proposal
OwnsProposal ==
    \/ currentUser.id = ServerProposal.createdBy.id
    \/ currentUser.id = Undefined /\ currentUser.username = ServerProposal.createdBy.username

\* C20: once the initial load has settled with every request answered OK,
\* for the owner the pull-requests endpoint has been queried and openPRs is
\* the list the server returned; for anybody else no pull-requests request
\* was sent and openPRs is empty.
OpenPRsLoadedForOwner ==
    InitialLoadSettled =>
        IF OwnsProposal
        THEN "pulls" \in requested /\ openPRs = ServerPulls
        ELSE "pulls" \notin requested /\ openPRs = << >>


----------------------------------------------------------------------------
(* EventDetail (App.tsx): its effect, its responses and handleParticipate. *)

\* what the page shows: if (loading || !event) the loading screen (line 802)
EventView(ed) == IF ed.loading \/ ed.event = Null THEN "loading" ELSE "page"

\* {error && (...)} of the page (line 974): the message on the screen, if any
ShownError(ed) == IF EventView(ed) = "page" THEN ed.error ELSE Null

\* useEffect(() => { fetchEventDetails(); fetchParticipationStatus();
\*                   fetchLeaderboard(); fetchActivityFeed(); }, [eventId]):
\* fetchParticipationStatus returns at once without a currentUser.id
EventMount ==
    /\ eventDetail.pc = "rendered"
    /\ eventDetail' =
           [eventDetail EXCEPT
               !.pc = "mounted",
               !.tasks = {"event", "leaderboard", "feed"}
                             \cup (IF eventDetail.userId = Undefined THEN {} ELSE {"status"})]
    /\ UNCHANGED beyondEvent

\* fetchEventDetails after its await (lines 615-624): a response that is not
\* OK throws 'Failed to fetch event details'; a network error carries the
\* browser's message
EventResponse ==
    /\ "event" \in eventDetail.tasks
    /\ \E outcome \in {"ok", "status", "error"} :
        eventDetail' =
            [eventDetail EXCEPT
                !.tasks = @ \ {"event"},
                !.event = IF outcome = "ok" THEN "event" ELSE @,
                !.error = CASE outcome = "ok" -> @
                            [] outcome = "status" -> "Failed to fetch event details"
                            [] outcome = "error" -> "Failed to fetch",
                !.eventFailed = (outcome # "ok")]
    /\ UNCHANGED beyondEvent

\* fetchParticipationStatus after its await (lines 640-648)
StatusResponse ==
    /\ "status" \in eventDetail.tasks
    /\ \E outcome \in {"participating", "not participating", "status", "error"} :
        eventDetail' =
            [eventDetail EXCEPT
                !.tasks = @ \ {"status"},
                !.participation = IF outcome = "participating" THEN "participation" ELSE @]
    /\ UNCHANGED beyondEvent

\* fetchLeaderboard after its await (lines 657-667): finally setLoading(false)
LeaderboardResponse ==
    /\ "leaderboard" \in eventDetail.tasks
    /\ \E outcome \in {"success", "no success", "status", "error"} :
        eventDetail' =
            [eventDetail EXCEPT
                !.tasks = @ \ {"leaderboard"},
                !.leaderboard = IF outcome = "success" THEN <<"entry">> ELSE @,
                !.loading = FALSE]
    /\ UNCHANGED beyondEvent

\* fetchActivityFeed after its await (lines 676-684)
FeedResponse ==
    /\ "feed" \in eventDetail.tasks
    /\ \E outcome \in {"success", "no success", "status", "error"} :
        eventDetail' =
            [eventDetail EXCEPT
                !.tasks = @ \ {"feed"},
                !.activities = IF outcome = "success" THEN <<"activity">> ELSE @]
    /\ UNCHANGED beyondEvent

\* the participate button is on the page while there is no participation,
\* and disabled while participating (lines 884, 895)
CanParticipate ==
    /\ EventView(eventDetail) = "page"
    /\ eventDetail.participation = Null
    /\ ~eventDetail.participating
    /\ Len(eventDetail.outcomes) + Cardinality(eventDetail.tasks \cap {"participate"}) < MaxJoins

\* handleParticipate up to its await (lines 687-704): without a
\* currentUser.id it sets the error and returns through the finally
ParticipateClick ==
    /\ CanParticipate
    /\ eventDetail' =
           IF eventDetail.userId = Undefined
           THEN [eventDetail EXCEPT
                    !.participating = FALSE,
                    !.error = "Please log in to participate in events",
                    !.outcomes = Append(@, "no id")]
           ELSE [eventDetail EXCEPT
                    !.participating = TRUE,
                    !.error = Null,
                    !.sent = @ + 1,
                    !.tasks = @ \cup {"participate"}]
    /\ UNCHANGED beyondEvent

\* handleParticipate after its await, where the finally does not run when
\* the request or response.json() throws
ParticipateResponseNoFinally ==
    /\ "participate" \in eventDetail.tasks
    /\ \E outcome \in {"success", "failure", "thrown"} :
        eventDetail' =
            [eventDetail EXCEPT
                !.tasks = (@ \ {"participate"})
                              \cup (IF outcome = "success" THEN {"leaderboard", "feed"} ELSE {}),
                !.participation = IF outcome = "success" THEN "participation" ELSE @,
                !.successMessage = IF outcome = "success" THEN "joined" ELSE @,
                !.error = CASE outcome = "success" -> @
                            [] outcome = "failure" -> "Failed to participate in event"
                            [] outcome = "thrown" -> "Failed to fetch",
                !.participating = (outcome = "thrown"),
                !.outcomes = Append(@, outcome)]
    /\ UNCHANGED beyondEvent

\* handleParticipate after its await (lines 706-722): on data.success the
\* participation and the message are set and fetchLeaderboard() and
\* fetchActivityFeed() are called, not awaited; otherwise the error is set;
\* in the finally setParticipating(false)
ParticipateResponse ==
    /\ "participate" \in eventDetail.tasks
    /\ \E outcome \in {"success", "failure", "thrown"} :
        eventDetail' =
            [eventDetail EXCEPT
                !.tasks = (@ \ {"participate"})
                              \cup (IF outcome = "success" THEN {"leaderboard", "feed"} ELSE {}),
                !.participation = IF outcome = "success" THEN "participation" ELSE @,
                !.successMessage = IF outcome = "success" THEN "joined" ELSE @,
                !.error = CASE outcome = "success" -> @
                            [] outcome = "failure" -> "Failed to participate in event"
                            [] outcome = "thrown" -> "Failed to fetch",
                !.participating = FALSE,
                !.outcomes = Append(@, outcome)]
    /\ UNCHANGED beyondEvent

\* the page as first rendered, for a user with or without an id
InitEvent ==
    /\ PatchIdle
    /\ NotRendered
    /\ profilePage = ProfileVisits(0, 0)
    /\ app = AppRendered("/")
    /\ proposalList = ListRendered
    /\ ownerPage = OwnerRendered("A")
    /\ eventDetail \in { EventRendered(id) : id \in {"u1", Undefined} }

NextEvent ==
    \/ EventMount
    \/ EventResponse
    \/ StatusResponse
    \/ LeaderboardResponse
    \/ FeedResponse
    \/ ParticipateClick
    \/ ParticipateResponse

SpecEvent == InitEvent /\ [][NextEvent]_vars

----------------------------------------------------------------------------
(* Properties of EventDetail.                                              *)

\* C21: if the event-details request fails, the failure is surfaced: once
\* nothing is in flight any more the page has left the loading screen and
\* shows the error message that fetchEventDetails set.
EventFailureSurfaced ==
    (eventDetail.eventFailed /\ eventDetail.pc = "mounted" /\ eventDetail.tasks = {}) =>
        /\ EventView(eventDetail) = "page"
        /\ ShownError(eventDetail) \in {"Failed to fetch event details", "Failed to fetch"}

\* a call of handleParticipate ends in this step
HandlerEnds == Len(eventDetail'.outcomes) > Len(eventDetail.outcomes)

\* C29: when handleParticipate finishes, however it ends, participating is
\* false; without a currentUser.id an error is set and no participate request
\* is sent; participation is set only when the response reports success.
ParticipateSettles ==
    [][HandlerEnds =>
          LET outcome == eventDetail'.outcomes[Len(eventDetail'.outcomes)]
          IN  /\ ~eventDetail'.participating
              /\ (eventDetail.userId = Undefined) <=> (outcome = "no id")
              /\ outcome = "no id" =>
                     /\ eventDetail'.error # Null
                     /\ eventDetail'.sent = eventDetail.sent
                     /\ eventDetail'.tasks = eventDetail.tasks
              /\ outcome # "success" => eventDetail'.participation = eventDetail.participation
              /\ outcome = "success" => eventDetail'.participation # Null]_vars

\* C29 witness: a call ended by a thrown error while participating, after a
\* call that the server had refused
ThrownAfterFailure ==
    /\ eventDetail.outcomes = <<"failure", "thrown">>
    /\ ~eventDetail.participating
    /\ eventDetail.sent = 2


----------------------------------------------------------------------------
(* Profile (pages/profile.tsx): fetchProfileData and its four requests.    *)

\* every request of the visit has been sent and answered
ProfileSettled(page) ==
    /\ page.pc = "mounted"
    /\ \A k \in ProfileRequests : page.answers[k] \notin {"none", "pending"}

\* the request k of a visit answered: when it is the last one, Promise.all
\* resolves and the finally of fetchProfileData runs setLoading(false)
Answered(page, k, outcome) ==
    [page EXCEPT
        !.answers[k] = outcome,
        !.loading = IF \A j \in ProfileRequests \ {k} : page.answers[j] # "pending"
                    THEN FALSE ELSE @]

\* useEffect(() => { fetchProfileData(); }, [currentUser.id]): setLoading(true)
\* and the four requests; the second visit comes after the first has settled
ProfileMount ==
    /\ \E i \in 1..2 :
        /\ profilePage.visit[i].pc = "rendered"
        /\ i = 2 => ProfileSettled(profilePage.visit[1])
        /\ profilePage' =
               [profilePage EXCEPT
                   !.visit[i].pc = "mounted",
                   !.visit[i].loading = TRUE,
                   !.visit[i].answers = [k \in ProfileRequests |-> "pending"]]
    /\ UNCHANGED beyondProfile

\* fetchUserProfile after its await (lines 91-99)
UserProfileResponse ==
    /\ \E i \in 1..2 : \E outcome \in {"ok", "status", "error"} :
        /\ profilePage.visit[i].answers["profile"] = "pending"
        /\ profilePage' =
               [profilePage EXCEPT
                   !.visit[i] =
                       LET page == Answered(@, "profile", outcome)
                       IN  IF outcome = "ok"
                           THEN [page EXCEPT !.profile = "userData",
                                             !.stats.joinDate = "1/1/2024"]
                           ELSE page]
    /\ UNCHANGED beyondProfile

\* fetchUserProposals after its await (lines 110-124)
UserProposalsResponse ==
    /\ \E i \in 1..2 : \E outcome \in {"ok", "status", "error"} :
        /\ profilePage.visit[i].answers["proposals"] = "pending"
        /\ profilePage' =
               [profilePage EXCEPT
                   !.visit[i] =
                       LET page == Answered(@, "proposals", outcome)
                       IN  IF outcome = "ok"
                           THEN [page EXCEPT !.proposals = <<"pending", "completed">>,
                                             !.stats.totalProposals = 2,
                                             !.stats.activeProposals = 1,
                                             !.stats.completedProposals = 1]
                           ELSE page]
    /\ UNCHANGED beyondProfile

\* fetchUserActivities after its await (lines 135-144): on OK
\* totalContributions: data.activities.length; on an error setActivities([])
UserActivitiesResponse ==
    /\ \E i \in 1..2 : \E outcome \in {"ok", "status", "error"} :
        /\ profilePage.visit[i].answers["activities"] = "pending"
        /\ profilePage' =
               [profilePage EXCEPT
                   !.visit[i] =
                       LET page == Answered(@, "activities", outcome)
                       IN  CASE outcome = "ok" ->
                                    [page EXCEPT
                                        !.activities = profilePage.server.activities,
                                        !.stats.totalContributions =
                                            Len(profilePage.server.activities)]
                             [] outcome = "status" -> page
                             [] outcome = "error" -> [page EXCEPT !.activities = << >>]]
    /\ UNCHANGED beyondProfile

\* fetchUserStats after its await (lines 152-164): on OK
\* totalContributions: data.totalContributions; on an error
\* pullRequestsToProposals: 0
UserStatsResponse ==
    /\ \E i \in 1..2 : \E outcome \in {"ok", "status", "error"} :
        /\ profilePage.visit[i].answers["stats"] = "pending"
        /\ profilePage' =
               [profilePage EXCEPT
                   !.visit[i] =
                       LET page == Answered(@, "stats", outcome)
                       IN  CASE outcome = "ok" ->
                                    [page EXCEPT
                                        !.stats.pullRequestsToProposals = 1,
                                        !.stats.totalContributions =
                                            profilePage.server.totalContributions]
                             [] outcome = "status" -> page
                             [] outcome = "error" ->
                                    [page EXCEPT !.stats.pullRequestsToProposals = 0]]
    /\ UNCHANGED beyondProfile

\* the page as first rendered, for some data on the server
InitProfile ==
    /\ PatchIdle
    /\ NotRendered
    /\ eventDetail = EventRendered(Undefined)
    /\ app = AppRendered("/")
    /\ proposalList = ListRendered
    /\ ownerPage = OwnerRendered("A")
    /\ profilePage \in { ProfileVisits(n, total) : n \in 0..MaxActivities,
                                                  total \in 0..MaxActivities }

NextProfile ==
    \/ ProfileMount
    \/ UserProfileResponse
    \/ UserProposalsResponse
    \/ UserActivitiesResponse
    \/ UserStatsResponse

SpecProfile == InitProfile /\ [][NextProfile]_vars

----------------------------------------------------------------------------
(* Properties of Profile.                                                  *)

\* the visit has settled with its activities and stats requests answered OK
SettledWithBoth(page) ==
    /\ ProfileSettled(page)
    /\ page.answers["activities"] = "ok"
    /\ page.answers["stats"] = "ok"

\* C22: once the four requests have settled, stats.totalContributions does
\* not depend on the order the activities and the stats response arrived in:
\* two visits that got the same answers show the same value.
ContributionsOrderIndependent ==
    (SettledWithBoth(profilePage.visit[1]) /\ SettledWithBoth(profilePage.visit[2])) =>
        profilePage.visit[1].stats.totalContributions
            = profilePage.visit[2].stats.totalContributions


----------------------------------------------------------------------------
(* App (App.tsx): checkAuthStatus, handleLogout and the route table.       *)

\* the routes whose element is a page behind the authentication check
ProtectedRoutes ==
    {"/dashboard", "/proposals", "/profile", "/events", "/rank", "/proposal/:id/manage"}

\* the paths of the <Routes> table (lines 112-219)
RoutePaths == {"/login", "/"} \cup ProtectedRoutes

Navigate(to) == [kind |-> "Navigate", to |-> to]

Page(name) == [kind |-> "Page", to |-> name]

\* /rank checking authState.isAuthenticated only
ElementRankUnchecked(path, authState) ==
    CASE path = "/login" ->
            IF authState.isAuthenticated THEN Navigate("/proposals") ELSE Page("Login")
      [] path = "/rank" ->
            IF authState.isAuthenticated THEN Page("ValidateRank") ELSE Navigate("/login")
      [] path \in ProtectedRoutes \ {"/rank"} ->
            IF authState.isAuthenticated /\ authState.user # Null
            THEN Page(path) ELSE Navigate("/login")
      [] path = "/" ->
            IF authState.isAuthenticated THEN Navigate("/proposals") ELSE Navigate("/login")

\* the element of the route at a path (lines 113-218), route by route
Element(path, authState) ==
    CASE path = "/login" ->
            IF authState.isAuthenticated THEN Navigate("/proposals") ELSE Page("Login")
      [] path = "/dashboard" ->
            IF authState.isAuthenticated /\ authState.user # Null
            THEN Page("Dashboard") ELSE Navigate("/login")
      [] path = "/proposals" ->
            IF authState.isAuthenticated /\ authState.user # Null
            THEN Page("ProposalList") ELSE Navigate("/login")
      [] path = "/profile" ->
            IF authState.isAuthenticated /\ authState.user # Null
            THEN Page("Profile") ELSE Navigate("/login")
      [] path = "/events" ->
            IF authState.isAuthenticated /\ authState.user # Null
            THEN Page("Events") ELSE Navigate("/login")
      [] path = "/rank" ->
            IF authState.isAuthenticated /\ authState.user # Null
            THEN Page("ValidateRank") ELSE Navigate("/login")
      [] path = "/proposal/:id/manage" ->
            IF authState.isAuthenticated /\ authState.user # Null
            THEN Page("ProposalOwnerWrapper") ELSE Navigate("/login")
      [] path = "/" ->
            IF authState.isAuthenticated THEN Navigate("/proposals") ELSE Navigate("/login")

\* what App returns: the loading screen while authState.loading (line 91),
\* else the element of the route at the location
AppView(a) ==
    IF a.authState.loading THEN Page("Loading") ELSE Element(a.location, a.authState)

\* useEffect(() => { checkAuthStatus(); }, []): the request is sent
AppMount ==
    /\ app.pc = "rendered"
    /\ app' = [app EXCEPT !.pc = "pending", !.last = "mount"]
    /\ UNCHANGED beyondApp

\* checkAuthStatus after its await (lines 52-73): an OK response with a user
\* object or with a body that parses to null, an OK response whose body does
\* not parse (response.json() throws), a status that is not OK, a failed fetch
CheckAuthResponse ==
    /\ app.pc = "pending"
    /\ \E outcome \in {"ok user", "ok null", "ok unparsable", "status", "error"} :
        app' = [app EXCEPT
                   !.pc = "done",
                   !.last = outcome,
                   !.authState =
                       CASE outcome = "ok user" ->
                                [isAuthenticated |-> TRUE, user |-> "userData", loading |-> FALSE]
                         [] outcome = "ok null" ->
                                [isAuthenticated |-> TRUE, user |-> Null, loading |-> FALSE]
                         [] OTHER ->
                                [isAuthenticated |-> FALSE, user |-> Null, loading |-> FALSE]]
    /\ UNCHANGED beyondApp

\* handleLogout (lines 76-82), from the Sidebar or Navbar of a rendered page
Logout ==
    /\ AppView(app).kind = "Page"
    /\ app.location \in ProtectedRoutes
    /\ app' = [app EXCEPT
                  !.authState = [isAuthenticated |-> FALSE, user |-> Null, loading |-> FALSE],
                  !.last = "logout"]
    /\ UNCHANGED beyondApp

\* <Navigate to=... /> rendered: the router moves to its target
FollowRedirect ==
    /\ AppView(app).kind = "Navigate"
    /\ Len(app.trail) < MaxHops
    /\ app' = [app EXCEPT
                  !.location = AppView(app).to,
                  !.trail = Append(@, AppView(app).to),
                  !.last = "redirect"]
    /\ UNCHANGED beyondApp

\* the user follows a link to a route of the table
Visit ==
    /\ ~app.authState.loading
    /\ \E path \in RoutePaths :
        /\ path # app.location
        /\ app' = [app EXCEPT !.location = path, !.trail = <<path>>, !.last = "visit"]
    /\ UNCHANGED beyondApp

\* the application opened at some route
InitApp ==
    /\ PatchIdle
    /\ NotRendered
    /\ eventDetail = EventRendered(Undefined)
    /\ profilePage = ProfileVisits(0, 0)
    /\ app \in { AppRendered(path) : path \in RoutePaths }
    /\ proposalList = ListRendered
    /\ ownerPage = OwnerRendered("A")

NextApp ==
    \/ AppMount
    \/ CheckAuthResponse
    \/ Logout
    \/ FollowRedirect
    \/ Visit

SpecApp == InitApp /\ [][NextApp]_vars

----------------------------------------------------------------------------
(* Properties of App.                                                      *)

Authenticated(a) == a.authState.isAuthenticated /\ a.authState.user # Null

\* C26: every protected route renders its page only when isAuthenticated and
\* user is non-null and redirects to /login otherwise; authState becomes
\* authenticated only by the OK response of checkAuthStatus; handleLogout
\* always leaves isAuthenticated false and user null.
ProtectedBehindAuth ==
    [][ /\ \A path \in ProtectedRoutes :
            /\ Authenticated(app') <=> Element(path, app'.authState).kind = "Page"
            /\ ~Authenticated(app') => Element(path, app'.authState) = Navigate("/login")
        /\ (app'.authState.isAuthenticated /\ ~app.authState.isAuthenticated) =>
               (app.pc = "pending" /\ app'.last \in {"ok user", "ok null"})
        /\ app'.last = "logout" =>
               (~app'.authState.isAuthenticated /\ app'.authState.user = Null)
      ]_vars

\* C26 witness: a protected page was rendered and the user has logged out of it
LoggedOutOfPage ==
    /\ app.last = "logout"
    /\ app.location = "/rank"
    /\ AppView(app) = Navigate("/login")

\* C27: whatever checkAuthStatus answered and wherever the user started, the
\* redirects end at a rendered page: no route is passed twice.
RedirectsEnd ==
    \A i, j \in 1..Len(app.trail) : app.trail[i] = app.trail[j] => i = j


----------------------------------------------------------------------------
(* ProposalList: handleCreateBranch and handleCreatePR.                    *)

\* what GET /api/proposals answers: two proposals of other users, one of the
\* current user
ServerProposals ==
    { [id |-> "P1", createdBy |-> "u2"],
      [id |-> "P2", createdBy |-> "u3"],
      [id |-> "P3", createdBy |-> "u1"] }

\* the user ProposalList is rendered for
ListUser == "u1"

\* result.branchName of a successful branch creation for a proposal
BranchOf(proposalId) == <<"branch of", proposalId>>

\* the rows that show the Branch button (line 270), and the PR button when
\* branchName is set (line 282)
Collaborable(pl) == { p.id : p \in { q \in pl.proposals : q.createdBy # ListUser } }

\* useEffect(() => { fetchProposals(); }, [])
ListMount ==
    /\ proposalList.pc = "rendered"
    /\ proposalList' = [proposalList EXCEPT !.pc = "mounted",
                                            !.tasks = {[kind |-> "proposals", proposal |-> Null, click |-> 0]}]
    /\ UNCHANGED beyondList

\* fetchProposals after its await (lines 107-118)
ListResponse ==
    /\ \E t \in proposalList.tasks : \E outcome \in {"ok", "error"} :
        /\ t.kind = "proposals"
        /\ proposalList' =
               [proposalList EXCEPT
                   !.tasks = @ \ {t},
                   !.proposals = IF outcome = "ok" THEN ServerProposals ELSE @,
                   !.loading = FALSE]
    /\ UNCHANGED beyondList

\* handleCreateBranch up to its fetch (lines 125-136)
CreateBranchClick ==
    /\ ~proposalList.loading
    /\ proposalList.clicks < MaxClicks
    /\ \E p \in Collaborable(proposalList) :
        /\ proposalList' =
               [proposalList EXCEPT
                   !.clicks = @ + 1,
                   !.tasks = @ \cup {[kind |-> "branch", proposal |-> p,
                                       click |-> proposalList.clicks + 1]}]
    /\ UNCHANGED beyondList

\* handleCreateBranch after its await (lines 138-148)
BranchResponse ==
    /\ \E t \in proposalList.tasks : \E outcome \in {"ok", "status", "error"} :
        /\ t.kind = "branch"
        /\ proposalList' =
               [proposalList EXCEPT
                   !.tasks = @ \ {t},
                   !.branchName = IF outcome = "ok" THEN BranchOf(t.proposal) ELSE @,
                   !.created = IF outcome = "ok"
                               THEN @ \cup {<<t.proposal, BranchOf(t.proposal)>>} ELSE @]
    /\ UNCHANGED beyondList

\* handleCreatePR up to its fetch (lines 151-174): the PR button of a row
\* is there when branchName is set; no request without a title
CreatePRClick ==
    /\ ~proposalList.loading
    /\ proposalList.clicks < MaxClicks
    /\ proposalList.branchName # ""
    /\ \E p \in Collaborable(proposalList) : \E prTitle \in {Null, "title"} :
        /\ proposalList' =
               IF prTitle = Null
               THEN [proposalList EXCEPT !.clicks = @ + 1]
               ELSE [proposalList EXCEPT
                        !.clicks = @ + 1,
                        !.tasks = @ \cup {[kind |-> "pr", proposal |-> p,
                                            click |-> proposalList.clicks + 1]},
                        !.prSent = @ \cup {<<p, proposalList.branchName>>}]
    /\ UNCHANGED beyondList

\* handleCreatePR after its await (lines 176-186): alerts only
PRResponse ==
    /\ \E t \in proposalList.tasks :
        /\ t.kind = "pr"
        /\ proposalList' = [proposalList EXCEPT !.tasks = @ \ {t}]
    /\ UNCHANGED beyondList

InitList ==
    /\ PatchIdle
    /\ NotRendered
    /\ eventDetail = EventRendered(Undefined)
    /\ profilePage = ProfileVisits(0, 0)
    /\ app = AppRendered("/")
    /\ proposalList = ListRendered
    /\ ownerPage = OwnerRendered("A")

NextList ==
    \/ ListMount
    \/ ListResponse
    \/ CreateBranchClick
    \/ BranchResponse
    \/ CreatePRClick
    \/ PRResponse

SpecList == InitList /\ [][NextList]_vars

----------------------------------------------------------------------------
(* Properties of ProposalList.                                             *)

\* C28: every pull-request request for a proposal carries a branchName that
\* a successful branch creation for the same proposal returned.
PRCarriesOwnBranch ==
    proposalList.prSent \subseteq proposalList.created


----------------------------------------------------------------------------
(* ProposalOwner: the effect run again for another proposalId.             *)

\* the user the page is rendered for, who created both proposals
OwnerUser == [id |-> "u1", username |-> "alice"]

\* what GET /api/proposals/:id answers for each proposal
ServerProposalOf(proposalId) == [id |-> proposalId, createdBy |-> OwnerUser]

\* what GET /api/proposals/:id/activity answers for each proposal
ServerActivityOf(proposalId) == IF proposalId = "A" THEN ActivityOfOne ELSE ActivityOfTwo

\* what GET /api/proposals/:id/pull-requests answers for each proposal
ServerPullsOf(proposalId) ==
    <<[number |-> 7, proposal |-> proposalId], [number |-> 8, proposal |-> proposalId]>>

\* a request of a render for proposalId, or a run of
\* processCollaboratorsFromActivity waiting for its user-detail requests
Request(kind, proposalId, from, map) ==
    [kind |-> kind, proposalId |-> proposalId, from |-> from, map |-> map,
     remaining |-> [i \in DOMAIN map |-> map[i].user_id], details |-> {}]

\* processCollaboratorsFromActivity(data) up to its first request, as in
\* ProcessCollaborators
ProcessInto(page, data, proposalId, from) ==
    LET map == CollaboratorMap(data)
    IN  IF map = << >>
        THEN [page EXCEPT !.collaborators = CollaboratorsArray(map, {})]
        ELSE [page EXCEPT !.tasks = @ \cup {Request("details", proposalId, from, map)}]

\* fetchProposalData(), fetchActivity(), fetchOpenPRs() and fetchCollaborators()
\* of the render `closure`, up to their first await: the URLs carry the
\* proposalId of that render, fetchOpenPRs decides by its proposal and
\* fetchCollaborators aggregates its activity
FetchesOf(page, closure) ==
    LET owner == IsProposalOwner(closure.proposal, OwnerUser)
        pid == closure.proposalId
        started == {Request("proposal", pid, "effect", << >>),
                    Request("activity", pid, "effect", << >>)}
                       \cup (IF owner THEN {Request("pulls", pid, "effect", << >>)} ELSE {})
        sent == [page EXCEPT
                    !.tasks = @ \cup started,
                    !.openPRs = IF owner THEN @ ELSE << >>,
                    !.error = IF owner THEN Null ELSE @,
                    !.loading = IF owner THEN @ ELSE FALSE]
    IN  ProcessInto(sent, closure.activity, pid, "fetchCollaborators")

\* the effect on [proposalId] (lines 118-125): setLoading(true);
\* setProposal(null); and the four fetches of the render it belongs to
EffectOf(closure) ==
    FetchesOf([closure EXCEPT !.loading = TRUE, !.proposal = NoProposal], closure)

\* the effect after the first render
SwitchMount ==
    /\ ownerPage.pc = "rendered"
    /\ ownerPage' = EffectOf([ownerPage EXCEPT !.pc = "mounted"])
    /\ UNCHANGED beyondOwnerPage

\* the parent renders the page with another proposalId: the state is kept
\* and the effect runs again; nothing cancels the requests in flight
ChangeProposal ==
    /\ ownerPage.pc = "mounted"
    /\ ownerPage.switches < MaxSwitches
    /\ \E proposalId \in {"A", "B"} \ {ownerPage.proposalId} :
        ownerPage' = EffectOf([ownerPage EXCEPT !.proposalId = proposalId,
                                                !.switches = @ + 1])
    /\ UNCHANGED beyondOwnerPage

\* fetchProposalData after its await (lines 151-154)
SwitchProposalResponse ==
    /\ \E t \in ownerPage.tasks : \E ok \in BOOLEAN :
        /\ t.kind = "proposal"
        /\ ownerPage' =
               [ownerPage EXCEPT
                   !.tasks = @ \ {t},
                   !.allOk = @ /\ ok,
                   !.proposal = IF ok THEN ServerProposalOf(t.proposalId) ELSE @]
    /\ UNCHANGED beyondOwnerPage

\* fetchActivity after its await (lines 165-170)
SwitchActivityResponse ==
    /\ \E t \in ownerPage.tasks : \E ok \in BOOLEAN :
        /\ t.kind = "activity"
        /\ ownerPage' =
               LET answered == [ownerPage EXCEPT !.tasks = @ \ {t}, !.allOk = @ /\ ok]
               IN  IF ok
                   THEN ProcessInto([answered EXCEPT !.activity = ServerActivityOf(t.proposalId)],
                                    ServerActivityOf(t.proposalId), t.proposalId, "fetchActivity")
                   ELSE answered
    /\ UNCHANGED beyondOwnerPage

\* fetchOpenPRs after its await (lines 190-209)
SwitchPullsResponse ==
    /\ \E t \in ownerPage.tasks : \E outcome \in {"ok", "403", "401", "other", "error"} :
        /\ t.kind = "pulls"
        /\ ownerPage' =
               [ownerPage EXCEPT
                   !.tasks = @ \ {t},
                   !.allOk = @ /\ outcome = "ok",
                   !.openPRs = IF outcome = "ok" THEN ServerPullsOf(t.proposalId) ELSE << >>,
                   !.error =
                       CASE outcome = "ok" -> @
                         [] outcome = "403" ->
                                "You are not authorized to view pull requests for this proposal"
                         [] outcome = "401" -> "Please log in to view pull requests"
                         [] outcome = "other" -> "Failed to fetch pull requests"
                         [] outcome = "error" -> "Network error while fetching pull requests",
                   !.loading = FALSE]
    /\ UNCHANGED beyondOwnerPage

\* the answer to one GET /api/user/:id of fetchUserDetails, as in
\* DetailsResponse
SwitchDetailsResponse ==
    /\ \E t \in ownerPage.tasks : \E outcome \in {"ok", "status", "error"} :
        /\ t.kind = "details"
        /\ LET remaining == IF outcome = "error" THEN << >> ELSE Tail(t.remaining)
               details == CASE outcome = "ok" -> t.details \cup {Head(t.remaining)}
                            [] outcome = "status" -> t.details
                            [] outcome = "error" -> {}
               answered == [ownerPage EXCEPT !.allOk = @ /\ outcome = "ok"]
           IN  ownerPage' =
                   IF remaining = << >>
                   THEN [answered EXCEPT
                            !.tasks = @ \ {t},
                            !.collaborators = CollaboratorsArray(t.map, details)]
                   ELSE [answered EXCEPT
                            !.tasks = (@ \ {t}) \cup
                                {[t EXCEPT !.remaining = remaining, !.details = details]}]
    /\ UNCHANGED beyondOwnerPage

\* the page as first rendered for one of the two proposals
InitSwitch ==
    /\ PatchIdle
    /\ NotRendered
    /\ eventDetail = EventRendered(Undefined)
    /\ profilePage = ProfileVisits(0, 0)
    /\ app = AppRendered("/")
    /\ proposalList = ListRendered
    /\ ownerPage \in { OwnerRendered(proposalId) : proposalId \in {"A", "B"} }

NextSwitch ==
    \/ SwitchMount
    \/ ChangeProposal
    \/ SwitchProposalResponse
    \/ SwitchActivityResponse
    \/ SwitchPullsResponse
    \/ SwitchDetailsResponse

SpecSwitch == InitSwitch /\ [][NextSwitch]_vars

----------------------------------------------------------------------------
(* Properties of ProposalOwner when its proposalId changes.                *)

\* the user ids of an activity
UsersOf(data) == { CollaboratorMap(data)[i].user_id : i \in DOMAIN CollaboratorMap(data) }

\* C23: after proposalId has changed and every request in flight has
\* settled (all of them answered OK), proposal, activity and collaborators
\* hold the data of the new proposalId, whatever order the responses of the
\* old and the new proposalId arrived in.
SettledOnCurrentProposal ==
    (ownerPage.switches > 0 /\ ownerPage.tasks = {} /\ ownerPage.allOk) =>
        /\ ownerPage.proposal = ServerProposalOf(ownerPage.proposalId)
        /\ ownerPage.activity = ServerActivityOf(ownerPage.proposalId)
        /\ ownerPage.collaborators =
               CollaboratorsArray(CollaboratorMap(ServerActivityOf(ownerPage.proposalId)),
                                  UsersOf(ServerActivityOf(ownerPage.proposalId)))


----------------------------------------------------------------------------
(* ProposalOwner: handleMergePR.                                           *)

\* the open pull requests of the proposal the server lists
OpenPullsOf(page) ==
    SelectSeq(ServerPullsOf(page.proposalId), LAMBDA pr : pr.number \notin page.merged)

\* the page of proposal A after a refresh has loaded its open pull requests
OwnerLoaded ==
    [OwnerRendered("A") EXCEPT
        !.pc = "mounted",
        !.proposal = ServerProposalOf("A"),
        !.activity = ServerActivityOf("A"),
        !.collaborators = CollaboratorsArray(CollaboratorMap(ServerActivityOf("A")), {"u1"}),
        !.openPRs = ServerPullsOf("A"),
        !.loading = FALSE]

\* `Pull request #${prNumber} merged successfully!`
MergedMessage(prNumber) == "Pull request #" \o ToString(prNumber) \o " merged successfully!"

\* errorData.message || `Failed to merge pull request #${prNumber}`, for a
\* body without a message
FailedMessage(prNumber) == "Failed to merge pull request #" \o ToString(prNumber)

\* a request or a timer of the call of handleMergePR started by a click
MergeTask(kind, prNumber, click, map) ==
    [kind |-> kind, pr |-> prNumber, click |-> click, map |-> map,
     remaining |-> [i \in DOMAIN map |-> map[i].user_id], details |-> {}]

\* handleMergePR's finally without setMergingPR(null)
EndOfMergeKeepsMerging(page, t, ok) ==
    [page EXCEPT
        !.tasks = IF ok THEN @ \cup {MergeTask("timer", t.pr, t.click, << >>)} ELSE @,
        !.ended = @ \cup {t.click}]

\* the end of handleMergePR: after a merge, setTimeout(() => setSuccess(null),
\* 5000); in every case the finally, setMergingPR(null)
EndOfMerge(page, t, ok) ==
    [page EXCEPT
        !.tasks = IF ok THEN @ \cup {MergeTask("timer", t.pr, t.click, << >>)} ELSE @,
        !.mergingPR = {},
        !.ended = @ \cup {t.click}]

\* the merge button of a pull request of the list (lines 737-740) and
\* handleMergePR up to its fetch (lines 390-409): nothing happens when the
\* user declines
MergeClick ==
    /\ ~ownerPage.loading
    /\ ownerPage.proposal # NoProposal
    /\ ownerPage.clicks < MaxMerges
    /\ \E i \in DOMAIN ownerPage.openPRs : \E confirmed \in BOOLEAN :
        LET prNumber == ownerPage.openPRs[i].number
            click == ownerPage.clicks + 1
        IN  /\ ownerPage.mergingPR # {prNumber}
            /\ ownerPage' =
                   IF ~confirmed
                   THEN [ownerPage EXCEPT
                            !.clicks = click,
                            !.answers = @ \cup {[pr |-> prNumber, click |-> click,
                                                  outcome |-> "declined"]}]
                   ELSE [ownerPage EXCEPT
                            !.clicks = click,
                            !.mergingPR = {prNumber},
                            !.error = Null,
                            !.success = Null,
                            !.tasks = @ \cup {MergeTask("merge", prNumber, click, << >>)}]
    /\ UNCHANGED beyondOwnerPage

\* handleMergePR after its await (lines 411-425): on OK setSuccess and
\* fetchOpenPRs up to its fetch; else setError and the finally.  The server
\* merges a pull request once.
MergeResponse ==
    /\ \E t \in ownerPage.tasks : \E outcome \in {"ok", "status", "error"} :
        /\ t.kind = "merge"
        /\ outcome = "ok" => t.pr \notin ownerPage.merged
        /\ LET answered ==
                   [ownerPage EXCEPT
                       !.tasks = @ \ {t},
                       !.answers = @ \cup {[pr |-> t.pr, click |-> t.click,
                                             outcome |-> outcome]}]
           IN  ownerPage' =
                   CASE outcome = "ok" ->
                            [answered EXCEPT
                                !.merged = @ \cup {t.pr},
                                !.success = MergedMessage(t.pr),
                                !.error = Null,
                                !.tasks = @ \cup {MergeTask("pulls", t.pr, t.click, << >>)}]
                     [] outcome = "status" ->
                            EndOfMerge([answered EXCEPT !.error = FailedMessage(t.pr)],
                                       t, FALSE)
                     [] outcome = "error" ->
                            EndOfMerge([answered EXCEPT
                                           !.error = "Network error while merging pull request"],
                                       t, FALSE)
    /\ UNCHANGED beyondOwnerPage

\* await fetchOpenPRs() of handleMergePR answered (lines 190-209), and
\* fetchActivity up to its fetch
MergePullsResponse ==
    /\ \E t \in ownerPage.tasks : \E outcome \in {"ok", "403", "401", "other", "error"} :
        /\ t.kind = "pulls"
        /\ ownerPage' =
               [ownerPage EXCEPT
                   !.tasks = (@ \ {t}) \cup {MergeTask("activity", t.pr, t.click, << >>)},
                   !.openPRs = IF outcome = "ok" THEN OpenPullsOf(ownerPage) ELSE << >>,
                   !.error =
                       CASE outcome = "ok" -> @
                         [] outcome = "403" ->
                                "You are not authorized to view pull requests for this proposal"
                         [] outcome = "401" -> "Please log in to view pull requests"
                         [] outcome = "other" -> "Failed to fetch pull requests"
                         [] outcome = "error" -> "Network error while fetching pull requests",
                   !.loading = FALSE]
    /\ UNCHANGED beyondOwnerPage

\* await fetchActivity() of handleMergePR answered (lines 165-170): on OK
\* setActivity and processCollaboratorsFromActivity up to its first request;
\* else the handler ends
MergeActivityResponse ==
    /\ \E t \in ownerPage.tasks : \E ok \in BOOLEAN :
        /\ t.kind = "activity"
        /\ ownerPage' =
               LET answered == [ownerPage EXCEPT !.tasks = @ \ {t}]
                   data == ServerActivityOf(ownerPage.proposalId)
                   map == CollaboratorMap(data)
               IN  IF ok
                   THEN [answered EXCEPT
                            !.activity = data,
                            !.tasks = @ \cup {MergeTask("details", t.pr, t.click, map)}]
                   ELSE EndOfMerge(answered, t, TRUE)
    /\ UNCHANGED beyondOwnerPage

\* the user-detail requests of that processCollaboratorsFromActivity
\* answered, as in DetailsResponse; after the last one the handler ends
MergeDetailsResponse ==
    /\ \E t \in ownerPage.tasks : \E outcome \in {"ok", "status", "error"} :
        /\ t.kind = "details"
        /\ LET remaining == IF outcome = "error" THEN << >> ELSE Tail(t.remaining)
               details == CASE outcome = "ok" -> t.details \cup {Head(t.remaining)}
                            [] outcome = "status" -> t.details
                            [] outcome = "error" -> {}
           IN  ownerPage' =
                   IF remaining = << >>
                   THEN EndOfMerge([ownerPage EXCEPT
                                       !.tasks = @ \ {t},
                                       !.collaborators = CollaboratorsArray(t.map, details)],
                                   t, TRUE)
                   ELSE [ownerPage EXCEPT
                            !.tasks = (@ \ {t}) \cup
                                {[t EXCEPT !.remaining = remaining, !.details = details]}]
    /\ UNCHANGED beyondOwnerPage

\* setTimeout(() => setSuccess(null), 5000)
MergeTimeout ==
    /\ \E t \in ownerPage.tasks :
        /\ t.kind = "timer"
        /\ ownerPage' = [ownerPage EXCEPT !.tasks = @ \ {t}, !.success = Null]
    /\ UNCHANGED beyondOwnerPage

InitMerge ==
    /\ PatchIdle
    /\ NotRendered
    /\ eventDetail = EventRendered(Undefined)
    /\ profilePage = ProfileVisits(0, 0)
    /\ app = AppRendered("/")
    /\ proposalList = ListRendered
    /\ ownerPage = OwnerLoaded

NextMerge ==
    \/ MergeClick
    \/ MergeResponse
    \/ MergePullsResponse
    \/ MergeActivityResponse
    \/ MergeDetailsResponse
    \/ MergeTimeout

SpecMerge == InitMerge /\ [][NextMerge]_vars

----------------------------------------------------------------------------
(* Properties of handleMergePR.                                            *)

\* the merge requests in flight
Merging(page) == { t \in page.tasks : t.kind = "merge" }

\* C24: a declined confirmation sends no request and leaves mergingPR, error
\* and success as they were; a confirmed one sets mergingPR to the number
\* of the pull request as it sends the request; when the handler ends
\* mergingPR is null, in every outcome; the two failure outcomes set error
\* and leave success alone, and success is set on an OK response only.
MergeHandlerSettles ==
    [][ /\ \A answer \in ownerPage'.answers \ ownerPage.answers :
            /\ answer.outcome = "declined" =>
                   /\ ownerPage'.tasks = ownerPage.tasks
                   /\ ownerPage'.mergingPR = ownerPage.mergingPR
                   /\ ownerPage'.error = ownerPage.error
                   /\ ownerPage'.success = ownerPage.success
            /\ answer.outcome \in {"status", "error"} =>
                   /\ ownerPage'.error \in {FailedMessage(answer.pr),
                                            "Network error while merging pull request"}
                   /\ ownerPage'.success = ownerPage.success
                   /\ answer.click \in ownerPage'.ended
            /\ answer.outcome = "ok" =>
                   ownerPage'.success = MergedMessage(answer.pr)
        /\ \A t \in Merging(ownerPage') \ Merging(ownerPage) :
               ownerPage'.mergingPR = {t.pr}
        /\ ownerPage'.success \notin {Null, ownerPage.success} =>
               \E answer \in ownerPage'.answers \ ownerPage.answers : answer.outcome = "ok"
        /\ ownerPage'.ended # ownerPage.ended => ownerPage'.mergingPR = {}
      ]_vars

\* C24 witness: one click was declined, one merge has succeeded and its
\* handler has ended, one has failed
DeclinedMergedAndFailed ==
    /\ { answer.outcome : answer \in ownerPage.answers } = {"declined", "ok", "error"}
    /\ Cardinality(ownerPage.ended) = 2
    /\ ownerPage.mergingPR = {}

\* C25: while the merge request for a pull request is in flight its button
\* is disabled, so that no second merge request for it is sent, also when
\* the merge of another pull request starts or ends in the meantime.
OneMergePerPull ==
    \A t, u \in Merging(ownerPage) : t.pr = u.pr => t = u

====
